---- MODULE Spec2Model ----
(***************************************************************************)
(* Poly: the anomaly-detection pipeline of the App component.              *)
(*                                                                         *)
(* State: the React state and refs of App (isScanning, markets,           *)
(* simulationMode, statusMessage, alerts, scanIntervalRef,                 *)
(* cycleRunningRef, processedTradeIds, marketStatsRef), the invocations of *)
(* startLiveScan that are suspended on an await, the interval timers they  *)
(* armed, the runCycle invocations in flight with their processQueue       *)
(* workers, and the backtest evaluation.                                   *)
(*                                                                         *)
(* One action is one browser task: a click handler, a timer callback or    *)
(* the arrival of a network answer, together with every promise            *)
(* continuation it makes runnable (JavaScript runs these to completion     *)
(* before the next task).                                                  *)
(*                                                                         *)
(* Money is counted in units of 20 USD, so that the 32-bit integers of the *)
(* checker hold the squares Welford's recurrence needs: every size and     *)
(* liquidity of the model is a multiple of 20 USD and Units() converts the *)
(* dollar literals of the source.  Probabilities are in percent.           *)
(* Presentation state (activeTab, dataFeedError, localProxyEnabled,        *)
(* showProxyInfo), MarketStats.lastUpdate, the alert's free-text reasoning *)
(* and the counts inside the status messages are not modelled.             *)
(***************************************************************************)
EXTENDS Integers, Sequences, FiniteSets, TLC

VARIABLES
    isScanning,         \* useState isScanning
    markets,            \* useState markets: sequence of market ids
    simulationMode,     \* useState simulationMode
    statusMessage,      \* useState statusMessage
    alerts,             \* useState alerts: the Alert Ledger
    scanIntervalRef,    \* useRef: 0 (null) or the id of an interval timer
    cycleRunningRef,    \* useRef: the reentrancy guard
    processedTradeIds,  \* useRef: the Dedup Ledger
    marketStatsRef,     \* useRef: market id -> MarketStats
    scans,              \* invocations of startLiveScan, by number
    cycles,             \* runCycle invocations in flight, oldest first
    initCalls,          \* initMarkets calls in flight that no scan awaits
    backtest,           \* the Demo Simulation timeout and its evaluation
    gatePasses,         \* history: trade id -> the evaluations that passed the
                        \* gate (counted to 2), whether one was skipped, and
                        \* whether one was fused with a qualifying baseScore
    statsFed,           \* history: market id -> the sizes that were passed to
                        \* updateMarketStats, in order
    earlyReturn         \* history: processQueue returned with work left

vars == <<isScanning, markets, simulationMode, statusMessage, alerts,
          scanIntervalRef, cycleRunningRef, processedTradeIds, marketStatsRef,
          scans, cycles, initCalls, backtest, gatePasses, statsFed, earlyReturn>>

-----------------------------------------------------------------------------
(* Bounds of the model. *)

MaxStarts == 2      \* calls of startLiveScan that pass its guard
MaxCycles == 2      \* runCycle invocations in flight at once
MaxFetch == 1       \* trades one fetchRecentTrades answer holds
MaxInits == 1       \* initMarkets calls in flight that no scan awaits
MaxItems == 4       \* trades of the feed in the single-cycle specification

(* Program constants. *)

QueueConcurrency == 3       \* processQueue(..., 3)
AlertCapacity == 50         \* slice(0, 50)
QualifyThreshold == 10      \* baseScore > 10
ColdStartCount == 5         \* stats.count < 5

Units(dollars) == dollars \div 20

Min(a, b) == IF a < b THEN a ELSE b

-----------------------------------------------------------------------------
(* Rationals <<n, d>> with d > 0, in lowest terms: the model of the        *)
(* JavaScript numbers the statistics hold.                                 *)

Abs(x) == IF x < 0 THEN -x ELSE x

RECURSIVE Gcd(_, _)
Gcd(a, b) == IF b = 0 THEN a ELSE Gcd(b, a % b)

Norm(n, d) ==
    LET g == Gcd(Abs(n), Abs(d))
        s == IF d < 0 THEN -1 ELSE 1
    IN  IF n = 0 THEN <<0, 1>> ELSE <<(s * n) \div g, (s * d) \div g>>

RInt(i) == <<i, 1>>
RAdd(x, y) == Norm(x[1] * y[2] + y[1] * x[2], x[2] * y[2])
RSub(x, y) == Norm(x[1] * y[2] - y[1] * x[2], x[2] * y[2])
RMul(x, y) == Norm(x[1] * y[1], x[2] * y[2])
RDivInt(x, k) == Norm(x[1], x[2] * k)
RLess(x, y) == x[1] * y[2] < y[1] * x[2]

-----------------------------------------------------------------------------
(* The data the external collaborators can supply. *)

InsiderAddress == "0x31a56e9E690c621eD21De08Cb559e9524Cdb8eD9"
InsiderAddressLower == "0x31a56e9e690c621ed21de08cb559e9524cdb8ed9"
NoAddress == "undefined"    \* t.proxyWallet || t.maker_address, both missing

toLowerCase(a) == IF a = InsiderAddress THEN InsiderAddressLower ELSE a

MarketIds == {"m1", "m2"}
DryMarket == "m0"                    \* a market without liquidity, not tracked
Liquidity(m) == IF m = "m1" THEN Units(100000)
                ELSE IF m = DryMarket THEN 0
                ELSE Units(450000)
FetchedMarkets == <<"m1", "m2">>     \* a non-empty answer of getTrendingMarkets
NoMarket == "undefined"              \* markets[0] of an empty list

(* Trades the feed can deliver.  The id is the composite the source builds *)
(* from transaction hash, outcome index and timestamp, so two fills of one *)
(* transaction (tA, tA2) share it.                                         *)
tA == [id |-> "a", marketId |-> "m1", price |-> 50, size |-> Units(1200),
       timestamp |-> 2, makerAddress |-> "0xw1"]
tA2 == [id |-> "a", marketId |-> "m1", price |-> 50, size |-> Units(400),
        timestamp |-> 2, makerAddress |-> "0xw1"]
tB == [id |-> "b", marketId |-> "m1", price |-> 10, size |-> Units(400),
       timestamp |-> 1, makerAddress |-> "0xw2"]
tC == [id |-> "c", marketId |-> "m2", price |-> 50, size |-> Units(40),
       timestamp |-> 1, makerAddress |-> "0xw2"]
tD == [id |-> "d", marketId |-> "m2", price |-> 10, size |-> Units(20),
       timestamp |-> 2, makerAddress |-> "0xw1"]
tE == [id |-> "e", marketId |-> "m2", price |-> 10, size |-> Units(400),
       timestamp |-> 1, makerAddress |-> NoAddress]

FeedTrades == {tA, tA2, tB, tC, tD, tE}
WhaleAnswers == {{}, {"0xw1"}}
WalletAnswers == {"absent", "stats"}
\* suspicionScore is a JSON number: the answers need not be whole.
AnalyzerScores == {RInt(0), <<161, 2>>, RInt(100)}
AnalyzerFactors == <<"Fresh Wallet">>

\* generateBacktestScenario()
BacktestTrade == [id |-> "sim-maduro-whale",
                  marketId |-> "0x4b7e56993f4e304602f90119109002231b67039031c6e10817094033324546",
                  price |-> 12, size |-> Units(35000), timestamp |-> 3,
                  makerAddress |-> InsiderAddress]

TradeIds == {t.id : t \in FeedTrades} \cup {BacktestTrade.id}

-----------------------------------------------------------------------------
(* Running Statistics Tracker. *)

NewStats == [count |-> 0, meanSize |-> RInt(0), m2Size |-> RInt(0)]

StatsOf(statsMap, marketId) ==
    IF marketId \in DOMAIN statsMap THEN statsMap[marketId] ELSE NewStats

\* updateMarketStats with delta * delta for delta * (size - meanSize).
WelfordDeltaSquared(stats, size) ==
    LET count == stats.count + 1
        delta == RSub(RInt(size), stats.meanSize)
        meanSize == RAdd(stats.meanSize, RDivInt(delta, count))
        m2Size == RAdd(stats.m2Size, RMul(delta, delta))
    IN  [count |-> count, meanSize |-> meanSize, m2Size |-> m2Size]

\* The record updateMarketStats stores and returns.
Welford(stats, size) ==
    LET count == stats.count + 1
        delta == RSub(RInt(size), stats.meanSize)
        meanSize == RAdd(stats.meanSize, RDivInt(delta, count))
        m2Size == RAdd(stats.m2Size, RMul(delta, RSub(RInt(size), meanSize)))
    IN  [count |-> count, meanSize |-> meanSize, m2Size |-> m2Size]

\* updateMarketStats folding the size into fresh stats, not into the stored
\* ones: the earlier updates are lost.
updateMarketStatsLost(statsMap, marketId, size) ==
    [m \in DOMAIN statsMap \cup {marketId} |->
        IF m = marketId THEN Welford(NewStats, size) ELSE statsMap[m]]

\* marketStatsRef.current after updateMarketStats(marketId, size).
updateMarketStats(statsMap, marketId, size) ==
    [m \in DOMAIN statsMap \cup {marketId} |->
        IF m = marketId THEN Welford(StatsOf(statsMap, marketId), size)
        ELSE statsMap[m]]

\* The history of the sizes fed, after updateMarketStats(marketId, size).
Fed(fedMap, marketId, size) ==
    [m \in DOMAIN fedMap \cup {marketId} |->
        IF m = marketId
        THEN Append(IF m \in DOMAIN fedMap THEN fedMap[m] ELSE <<>>, size)
        ELSE fedMap[m]]

-----------------------------------------------------------------------------
(* Heuristic Scorer. *)

\* calculateDynamicZScore dividing by the standard deviation also when it
\* is 0: the quotient of a positive deviation is Infinity.
ZScoreAboveUnguarded(size, stats, k) ==
    IF stats.count < ColdStartCount
    THEN RLess(RInt(k), Norm(size - Units(200), Units(300)))
    ELSE LET dev == RSub(RInt(size), stats.meanSize)
             variance == RDivInt(stats.m2Size, stats.count)
         IN  /\ RLess(RInt(0), dev)
             /\ RLess(RMul(RInt(k * k), variance), RMul(dev, dev))

\* calculateDynamicZScore(size, stats) > k.  The standard deviation is a
\* square root, so the comparison is made on the squares.
ZScoreAbove(size, stats, k) ==
    IF stats.count < ColdStartCount
    THEN RLess(RInt(k), Norm(size - Units(200), Units(300)))
    ELSE LET dev == RSub(RInt(size), stats.meanSize)
             variance == RDivInt(stats.m2Size, stats.count)
         IN  /\ variance # RInt(0)
             /\ RLess(RInt(0), dev)
             /\ RLess(RMul(RInt(k * k), variance), RMul(dev, dev))

\* The scorer with the weight 10 for Speculative Accumulation.
analyzeTradeHeuristicsLight(trade, marketId, stats, isWhale) ==
    LET z == ZScoreAbove(trade.size, stats, 3)
        liq == /\ Liquidity(marketId) > 0
               /\ trade.size * 100 > Liquidity(marketId)
        spec == trade.price < 20 /\ trade.size > Units(200)
        insider == toLowerCase(trade.makerAddress) = toLowerCase(InsiderAddress)
    IN  [baseScore |-> (IF z THEN 35 ELSE 0) + (IF liq THEN 25 ELSE 0)
                       + (IF spec THEN 10 ELSE 0) + (IF isWhale THEN 30 ELSE 0)
                       + (IF insider THEN 50 ELSE 0),
         factors |-> (IF z THEN <<"High Size Z">> ELSE <<>>)
                     \o (IF liq THEN <<"Significant Liquidity Impact">> ELSE <<>>)
                     \o (IF spec THEN <<"Speculative Accumulation">> ELSE <<>>)
                     \o (IF isWhale THEN <<"Verified Whale Activity">> ELSE <<>>)
                     \o (IF insider THEN <<"Blacklisted/Known Insider">> ELSE <<>>)]

\* The scorer with its baseScore clamped to 100.
analyzeTradeHeuristicsClamped(trade, marketId, stats, isWhale) ==
    LET z == ZScoreAbove(trade.size, stats, 3)
        liq == /\ Liquidity(marketId) > 0
               /\ trade.size * 100 > Liquidity(marketId)
        spec == trade.price < 20 /\ trade.size > Units(200)
        insider == toLowerCase(trade.makerAddress) = toLowerCase(InsiderAddress)
    IN  [baseScore |-> Min(100, (IF z THEN 35 ELSE 0) + (IF liq THEN 25 ELSE 0)
                       + (IF spec THEN 20 ELSE 0) + (IF isWhale THEN 30 ELSE 0)
                       + (IF insider THEN 50 ELSE 0)),
         factors |-> (IF z THEN <<"High Size Z">> ELSE <<>>)
                     \o (IF liq THEN <<"Significant Liquidity Impact">> ELSE <<>>)
                     \o (IF spec THEN <<"Speculative Accumulation">> ELSE <<>>)
                     \o (IF isWhale THEN <<"Verified Whale Activity">> ELSE <<>>)
                     \o (IF insider THEN <<"Blacklisted/Known Insider">> ELSE <<>>)]

analyzeTradeHeuristics(trade, marketId, stats, isWhale) ==
    LET z == ZScoreAbove(trade.size, stats, 3)
        liq == /\ Liquidity(marketId) > 0
               /\ trade.size * 100 > Liquidity(marketId)
        spec == trade.price < 20 /\ trade.size > Units(200)
        insider == toLowerCase(trade.makerAddress) = toLowerCase(InsiderAddress)
    IN  [baseScore |-> (IF z THEN 35 ELSE 0) + (IF liq THEN 25 ELSE 0)
                       + (IF spec THEN 20 ELSE 0) + (IF isWhale THEN 30 ELSE 0)
                       + (IF insider THEN 50 ELSE 0),
         factors |-> (IF z THEN <<"High Size Z">> ELSE <<>>)
                     \o (IF liq THEN <<"Significant Liquidity Impact">> ELSE <<>>)
                     \o (IF spec THEN <<"Speculative Accumulation">> ELSE <<>>)
                     \o (IF isWhale THEN <<"Verified Whale Activity">> ELSE <<>>)
                     \o (IF insider THEN <<"Blacklisted/Known Insider">> ELSE <<>>)]

-----------------------------------------------------------------------------
(* Suspicion Analyzer and Score Fusion. *)

\* The catch branch without Math.min(50, ...).
AnalyzerFallbackUncapped(preliminaryFactors) ==
    LET heuristicScore == Len(preliminaryFactors) * 15
    IN  [wellFormed |-> TRUE,
         suspicionScore |-> RInt(heuristicScore),
         riskLevel |-> IF heuristicScore > 60 THEN "HIGH" ELSE "MEDIUM",
         factors |-> SubSeq(preliminaryFactors, 1, Min(3, Len(preliminaryFactors)))]

\* The catch branch of analyzeSuspicion.
AnalyzerFallback(preliminaryFactors) ==
    LET heuristicScore == Len(preliminaryFactors) * 15
    IN  [wellFormed |-> TRUE,
         suspicionScore |-> RInt(Min(50, heuristicScore)),
         riskLevel |-> IF heuristicScore > 60 THEN "HIGH" ELSE "MEDIUM",
         factors |-> SubSeq(preliminaryFactors, 1, Min(3, Len(preliminaryFactors)))]

\* What analyzeSuspicion resolves to: a parsed answer of the model, a parsed
\* object without the fields (returned as it is: wellFormed is FALSE), or
\* the fallback when the call fails.
AnalyzerAnswers(preliminaryFactors) ==
    {[wellFormed |-> TRUE, suspicionScore |-> s, riskLevel |-> "LOW",
      factors |-> AnalyzerFactors] : s \in AnalyzerScores}
    \cup {[wellFormed |-> FALSE, suspicionScore |-> RInt(0), riskLevel |-> "LOW",
           factors |-> <<>>]}
    \cup {AnalyzerFallback(preliminaryFactors)}

\* Lines 109-112.
LevelOf(finalScore) ==
    IF RLess(RInt(85), finalScore) THEN "CRITICAL"
    ELSE IF RLess(RInt(65), finalScore) THEN "HIGH"
    ELSE IF RLess(RInt(40), finalScore) THEN "MEDIUM"
    ELSE "LOW"

\* Math.floor in the place of Math.round.
MathRoundDown(x) == x[1] \div x[2]

\* Math.round: the nearest integer, ties go up.
MathRound(x) == (2 * x[1] + x[2]) \div (2 * x[2])

\* Lines 108-112 and 117: the score and the level of the alert.
Fuse(baseScore, analyzerScore) ==
    LET finalScore == RDivInt(RAdd(RInt(baseScore), analyzerScore), 2)
    IN  [suspicionScore |-> MathRound(finalScore), level |-> LevelOf(finalScore)]

RECURSIVE DedupSeq(_)
\* Array.from(new Set(s)): first occurrences, in order.
DedupSeq(s) ==
    IF s = <<>> THEN <<>>
    ELSE LET front == DedupSeq(SubSeq(s, 1, Len(s) - 1))
             last == s[Len(s)]
         IN  IF \E i \in 1..Len(front) : front[i] = last THEN front
             ELSE Append(front, last)

\* The alert with the two factor lists concatenated.
MakeAlertConcatenating(trade, heur, analysis, walletStats, isWhale) ==
    [id |-> trade.id,
     trade |-> trade,
     suspicionScore |-> Fuse(heur.baseScore, analysis.suspicionScore).suspicionScore,
     level |-> Fuse(heur.baseScore, analysis.suspicionScore).level,
     factors |-> heur.factors \o analysis.factors,
     walletStats |-> IF walletStats = "absent" THEN "undefined"
                     ELSE IF isWhale THEN "stats+whale" ELSE "stats"]

\* The object evaluateTrade returns when baseScore qualifies.
MakeAlert(trade, heur, analysis, walletStats, isWhale) ==
    [id |-> trade.id,
     trade |-> trade,
     suspicionScore |-> Fuse(heur.baseScore, analysis.suspicionScore).suspicionScore,
     level |-> Fuse(heur.baseScore, analysis.suspicionScore).level,
     factors |-> DedupSeq(heur.factors \o analysis.factors),
     walletStats |-> IF walletStats = "absent" THEN "undefined"
                     ELSE IF isWhale THEN "stats+whale" ELSE "stats"]

-----------------------------------------------------------------------------
(* Alert Ledger: the updater runCycle passes to setAlerts. *)

RECURSIVE UniqueById(_)
\* Array.from(new Map(next.map(item => [item.id, item])).values()): a Map
\* keeps a key at the place of its first insertion and the value of its last.
UniqueById(next) ==
    IF next = <<>> THEN <<>>
    ELSE LET front == UniqueById(SubSeq(next, 1, Len(next) - 1))
             last == next[Len(next)]
         IN  IF \E i \in 1..Len(front) : front[i].id = last.id
             THEN [i \in 1..Len(front) |->
                      IF front[i].id = last.id THEN last ELSE front[i]]
             ELSE Append(front, last)

\* The comparator: negative when a sorts before b.
CompareAlerts(a, b) ==
    IF b.suspicionScore - a.suspicionScore # 0
    THEN b.suspicionScore - a.suspicionScore
    ELSE b.trade.timestamp - a.trade.timestamp

RECURSIVE InsertAlert(_, _)
InsertAlert(a, sorted) ==
    IF sorted = <<>> THEN <<a>>
    ELSE IF CompareAlerts(a, Head(sorted)) <= 0 THEN <<a>> \o sorted
    ELSE <<Head(sorted)>> \o InsertAlert(a, Tail(sorted))

RECURSIVE SortAlerts(_)
\* Array.prototype.sort is stable: equal alerts keep their order.
SortAlerts(s) ==
    IF s = <<>> THEN <<>> ELSE InsertAlert(Head(s), SortAlerts(Tail(s)))

Slice(s, n) == SubSeq(s, 1, Min(n, Len(s)))

\* The updater without .slice(0, 50).
MergeAlertsUnsliced(validAlerts, prev) ==
    SortAlerts(UniqueById(validAlerts \o prev))

MergeAlerts(validAlerts, prev) ==
    Slice(SortAlerts(UniqueById(validAlerts \o prev)), AlertCapacity)

-----------------------------------------------------------------------------
(* evaluateTrade.  An evaluation is a record: pc names the await it is     *)
(* suspended on ("off": none).  Its steps work on the shared refs          *)
(*   sh = [processed |-> processedTradeIds, stats |-> marketStatsRef,      *)
(*         passes |-> gatePasses, fed |-> statsFed]                        *)
(* and yield [st, ev, value, sh]: st = "await" (suspended again, as ev),   *)
(* "alert" (returned the alert value), "null" (returned null) or "throw".  *)

NoHeur == [baseScore |-> 0, factors |-> <<>>]

NoEval == [pc |-> "off", trade |-> "none", marketId |-> "none", sim |-> FALSE,
           stats |-> NewStats, heur |-> NoHeur, isWhale |-> FALSE,
           walletStats |-> "absent"]

Await(ev, sh) == [st |-> "await", ev |-> ev, value |-> "null", sh |-> sh]
ReturnAlert(alert, sh) == [st |-> "alert", ev |-> NoEval, value |-> alert, sh |-> sh]
ReturnNull(sh) == [st |-> "null", ev |-> NoEval, value |-> "null", sh |-> sh]
Throw(sh) == [st |-> "throw", ev |-> NoEval, value |-> "null", sh |-> sh]

\* Scoring without the test of line 105: every trade goes on to the oracles.
EvalScoreUnqualified(ev, isWhale, sh) ==
    IF ev.trade.makerAddress = NoAddress THEN Throw(sh)
    ELSE LET heur == analyzeTradeHeuristics(ev.trade, ev.marketId, ev.stats, isWhale)
             scored == [ev EXCEPT !.heur = heur, !.isWhale = isWhale]
         IN  IF ev.sim
             THEN Await([scored EXCEPT !.pc = "analyze", !.walletStats = "stats"], sh)
             ELSE Await([scored EXCEPT !.pc = "wallet"], sh)

\* Lines 102-107 and 124: score, then qualify.  In simulation mode
\* fetchWalletStats answers at once, so the next await is the analyzer's.
EvalScore(ev, isWhale, sh) ==
    IF ev.trade.makerAddress = NoAddress THEN Throw(sh)   \* undefined.toLowerCase()
    ELSE LET heur == analyzeTradeHeuristics(ev.trade, ev.marketId, ev.stats, isWhale)
             scored == [ev EXCEPT !.heur = heur, !.isWhale = isWhale]
         IN  IF heur.baseScore > QualifyThreshold
             THEN IF ev.sim
                  THEN Await([scored EXCEPT !.pc = "analyze", !.walletStats = "stats"], sh)
                  ELSE Await([scored EXCEPT !.pc = "wallet"], sh)
             ELSE ReturnNull(sh)

\* evaluateTrade with line 95 left out: the gate tests and does not mark.
EvalBeginUnmarked(trade, marketId, sim, sh) ==
    IF trade.id \in sh.processed
    THEN ReturnNull([sh EXCEPT !.passes[trade.id].skipped = TRUE])
    ELSE LET marked == [sh EXCEPT !.passes[trade.id].passed = Min(@ + 1, 2)]
         IN  IF marketId = NoMarket THEN Throw(marked)
             ELSE LET statsMap == updateMarketStats(sh.stats, marketId, trade.size)
                      updated == [marked EXCEPT !.stats = statsMap,
                                                !.fed = Fed(@, marketId, trade.size)]
                      ev == [NoEval EXCEPT !.trade = trade, !.marketId = marketId,
                                           !.sim = sim, !.stats = statsMap[marketId]]
                  IN  IF sim THEN EvalScore(ev, FALSE, updated)
                      ELSE Await([ev EXCEPT !.pc = "whales"], updated)

\* Lines 94-101: the dedup gate and the stats update, up to the first await.
EvalBegin(trade, marketId, sim, sh) ==
    IF trade.id \in sh.processed
    THEN ReturnNull([sh EXCEPT !.passes[trade.id].skipped = TRUE])
    ELSE LET marked == [sh EXCEPT !.processed = @ \cup {trade.id},
                                  !.passes[trade.id].passed = Min(@ + 1, 2)]
         IN  IF marketId = NoMarket THEN Throw(marked)    \* undefined.id
             ELSE LET statsMap == updateMarketStats(sh.stats, marketId, trade.size)
                      updated == [marked EXCEPT !.stats = statsMap,
                                                !.fed = Fed(@, marketId, trade.size)]
                      ev == [NoEval EXCEPT !.trade = trade, !.marketId = marketId,
                                           !.sim = sim, !.stats = statsMap[marketId]]
                  IN  IF sim THEN EvalScore(ev, FALSE, updated)
                      ELSE Await([ev EXCEPT !.pc = "whales"], updated)

\* fetchMarketWhales has answered (line 100).
EvalWhales(ev, whales, sh) ==
    IF ev.trade.makerAddress = NoAddress THEN Throw(sh)
    ELSE EvalScore(ev, toLowerCase(ev.trade.makerAddress) \in whales, sh)

\* fetchWalletStats has answered (line 106).
EvalWallet(ev, answer, sh) ==
    Await([ev EXCEPT !.pc = "analyze", !.walletStats = answer], sh)

\* evaluateTrade taking the id out of processedTradeIds when it throws.
EvalAnalysisRetrying(ev, analysis, sh) ==
    IF ~analysis.wellFormed
    THEN Throw([sh EXCEPT !.processed = @ \ {ev.trade.id}])
    ELSE ReturnAlert(MakeAlert(ev.trade, ev.heur, analysis, ev.walletStats, ev.isWhale),
                     [sh EXCEPT !.passes[ev.trade.id].fused =
                                    @ \/ ev.heur.baseScore > QualifyThreshold])

\* analyzeSuspicion has answered (lines 108-122).  Spreading the factors
\* of an answer that has none throws.
EvalAnalysis(ev, analysis, sh) ==
    IF ~analysis.wellFormed THEN Throw(sh)
    ELSE ReturnAlert(MakeAlert(ev.trade, ev.heur, analysis, ev.walletStats, ev.isWhale),
                     [sh EXCEPT !.passes[ev.trade.id].fused =
                                    @ \/ ev.heur.baseScore > QualifyThreshold])

-----------------------------------------------------------------------------
(* processQueue.  A run is a record: items (the argument), queue, handed   *)
(* (history: the items passed to fn, in order), results, workers (the      *)
(* evaluations that the workers still in their loops await, oldest first)  *)
(* and rejected (a worker's promise rejected).                             *)
(* Between two tasks every worker that has not left its loop awaits an     *)
(* evaluation, and an item is evaluated when it is taken from the queue,   *)
(* so the workers need no names: which of them holds which evaluation has  *)
(* no effect.                                                              *)

Range(s) == {s[i] : i \in 1..Len(s)}

RemoveAt(s, i) == SubSeq(s, 1, i - 1) \o SubSeq(s, i + 1, Len(s))

NoRun == [items |-> <<>>, queue |-> <<>>, handed |-> <<>>, results |-> <<>>,
          workers |-> <<>>, rejected |-> FALSE]

\* Array(items.length): a worker for every item.
WorkerCountUnbounded(items, concurrency) == Len(items)

\* Array(Math.min(items.length, concurrency))
WorkerCount(items, concurrency) == Min(Len(items), concurrency)

\* The function runCycle passes to processQueue (lines 149-152).
EvaluateCandidate(trade, currentMarkets, sim, sh) ==
    IF trade.marketId \in Range(currentMarkets)
    THEN EvalBegin(trade, trade.marketId, sim, sh)
    ELSE ReturnNull(sh)

\* The worker without its try/catch: a throw rejects the worker's promise.
WorkerSettleNoCatch(run, r) ==
    IF r.st = "alert" THEN [run EXCEPT !.results = Append(@, r.value)]
    ELSE IF r.st = "throw" THEN [run EXCEPT !.rejected = TRUE]
    ELSE run

\* The try/catch of the worker (lines 82-85), for an evaluation that
\* settled as r.
WorkerSettle(run, r) ==
    IF r.st = "alert" THEN [run EXCEPT !.results = Append(@, r.value)]
    ELSE run

RECURSIVE WorkerLoop(_, _, _, _)
\* A worker at the head of its while loop (line 79): it takes items until
\* an evaluation suspends or the queue is empty.  Yields [run, sh].
WorkerLoop(run, currentMarkets, sim, sh) ==
    IF run.rejected \/ run.queue = <<>> THEN [run |-> run, sh |-> sh]
    ELSE LET item == Head(run.queue)
             r == EvaluateCandidate(item, currentMarkets, sim, sh)
             taken == [run EXCEPT !.queue = Tail(@), !.handed = Append(@, item)]
         IN  IF r.st = "await"
             THEN [run |-> [taken EXCEPT !.workers = Append(@, r.ev)], sh |-> r.sh]
             ELSE WorkerLoop(WorkerSettle(taken, r), currentMarkets, sim, r.sh)

RECURSIVE StartWorkers(_, _, _, _)
\* Line 89: n workers are started in turn; each runs to its first
\* suspension.  res is [run, sh].
StartWorkers(res, n, currentMarkets, sim) ==
    IF n = 0 THEN res
    ELSE StartWorkers(WorkerLoop(res.run, currentMarkets, sim, res.sh),
                      n - 1, currentMarkets, sim)

\* processQueue whose workers take the items from the end of the queue.
processQueueFromEnd(items, concurrency, currentMarkets, sim, sh) ==
    LET reversed == [i \in 1..Len(items) |-> items[Len(items) + 1 - i]]
    IN  StartWorkers([run |-> [NoRun EXCEPT !.items = items, !.queue = reversed],
                      sh |-> sh],
                     WorkerCount(items, concurrency), currentMarkets, sim)

processQueue(items, concurrency, currentMarkets, sim, sh) ==
    StartWorkers([run |-> [NoRun EXCEPT !.items = items, !.queue = items], sh |-> sh],
                 WorkerCount(items, concurrency), currentMarkets, sim)

\* processQueue returning its results without awaiting the workers.
NoneAwaited(run) == TRUE

\* Promise.all of the workers has resolved (line 89).
AllSettled(run) == Len(run.workers) = 0

\* Every item was passed to fn, once and in order, and no evaluation is
\* pending.
Drained(run) == run.queue = <<>> /\ run.handed = run.items /\ Len(run.workers) = 0

-----------------------------------------------------------------------------
(* The state as one record, so that a handler is a function from state to  *)
(* state and handlers compose as the calls of the source do.               *)

State == [isScanning |-> isScanning, markets |-> markets,
          simulationMode |-> simulationMode, statusMessage |-> statusMessage,
          alerts |-> alerts, scanIntervalRef |-> scanIntervalRef,
          cycleRunningRef |-> cycleRunningRef,
          processedTradeIds |-> processedTradeIds,
          marketStatsRef |-> marketStatsRef, scans |-> scans, cycles |-> cycles,
          initCalls |-> initCalls, backtest |-> backtest,
          gatePasses |-> gatePasses, statsFed |-> statsFed,
          earlyReturn |-> earlyReturn]

\* The handler has run: the state becomes t.
Becomes(s) ==
    \E t \in {s} :
        /\ isScanning' = t.isScanning
        /\ markets' = t.markets
        /\ simulationMode' = t.simulationMode
        /\ statusMessage' = t.statusMessage
        /\ alerts' = t.alerts
        /\ scanIntervalRef' = t.scanIntervalRef
        /\ cycleRunningRef' = t.cycleRunningRef
        /\ processedTradeIds' = t.processedTradeIds
        /\ marketStatsRef' = t.marketStatsRef
        /\ scans' = t.scans
        /\ cycles' = t.cycles
        /\ initCalls' = t.initCalls
        /\ backtest' = t.backtest
        /\ gatePasses' = t.gatePasses
        /\ statsFed' = t.statsFed
        /\ earlyReturn' = t.earlyReturn

Shared(s) == [processed |-> s.processedTradeIds, stats |-> s.marketStatsRef,
              passes |-> s.gatePasses, fed |-> s.statsFed]

WithShared(s, sh) ==
    [s EXCEPT !.processedTradeIds = sh.processed, !.marketStatsRef = sh.stats,
              !.gatePasses = sh.passes, !.statsFed = sh.fed]

\* A call of startLiveScan: pc is "unused", "init" (awaiting initMarkets),
\* "first" (awaiting its first runCycle) or "done"; sim and mk are the
\* simulationMode and currentMarkets of its closure; timer is its interval,
\* armed and not cleared; stopped (history) whether stopScan ran since the
\* call.  The interval's id is the number of the scan.  Once its interval
\* is cleared nothing refers to the closure.
NoScan == [pc |-> "unused", sim |-> FALSE, mk |-> <<>>, timer |-> FALSE,
           stopped |-> FALSE]
DeadScan == [NoScan EXCEPT !.pc = "done", !.stopped = TRUE]

\* A runCycle invocation past its guard, in the sequence cycles (oldest
\* first): pc is "fetch" (awaiting fetchRecentTrades) or "queue" (awaiting
\* processQueue); scan is the startLiveScan whose closure it is, sim and mk
\* the simulationMode and currentMarkets of that closure, first whether the
\* startLiveScan awaits it.
NewCycle(n, scan, first) ==
    [pc |-> "fetch", scan |-> n, first |-> first,
     sim |-> scan.sim, mk |-> scan.mk, run |-> NoRun]

Scans == 1..MaxStarts
InFlight == 1..Len(cycles)

-----------------------------------------------------------------------------
(* Scan Scheduler. *)

\* stopScan that also forgets the processed trade ids.
stopScanForgetting(s) ==
    [s EXCEPT !.isScanning = FALSE,
              !.scans = [n \in Scans |->
                            IF n = s.scanIntervalRef THEN DeadScan
                            ELSE IF @[n].pc = "unused" THEN @[n]
                            ELSE [@[n] EXCEPT !.stopped = TRUE]],
              !.cycleRunningRef = FALSE,
              !.statusMessage = "System Idle",
              !.processedTradeIds = {}]

\* Lines 173-178.
stopScan(s) ==
    [s EXCEPT !.isScanning = FALSE,
              !.scans = [n \in Scans |->
                            IF n = s.scanIntervalRef THEN DeadScan
                            ELSE IF @[n].pc = "unused" THEN @[n]
                            ELSE [@[n] EXCEPT !.stopped = TRUE]],
              !.cycleRunningRef = FALSE,
              !.statusMessage = "System Idle"]

\* Line 170: startLiveScan resumes after its first runCycle.
ArmInterval(s, n) ==
    [s EXCEPT !.scans[n].pc = "done", !.scans[n].timer = TRUE,
              !.scanIntervalRef = n]

\* runCycle without its finally: the guard stays taken.
CycleFinallyHeld(s, n, first) ==
    IF first THEN ArmInterval(s, n) ELSE s

\* The finally of runCycle (line 167), and what awaited the cycle.
CycleFinally(s, n, first) ==
    LET released == [s EXCEPT !.cycleRunningRef = FALSE]
    IN  IF first THEN ArmInterval(released, n) ELSE released

\* Lines 154-161 and 167: processQueue has returned validAlerts to cycle c.
CycleMerge(s, c, validAlerts) ==
    LET cy == s.cycles[c]
        merged == IF Len(validAlerts) > 0
                  THEN [s EXCEPT !.alerts = MergeAlerts(validAlerts, @)]
                  ELSE s
    IN  CycleFinally([merged EXCEPT !.cycles = RemoveAt(@, c)], cy.scan, cy.first)

\* Lines 163-167: processQueue has thrown.
CycleCatch(s, c) ==
    LET cy == s.cycles[c]
    IN  CycleFinally([s EXCEPT !.statusMessage = "Scan interrupted.",
                               !.cycles = RemoveAt(@, c)], cy.scan, cy.first)

\* Lines 135-148: runCycle of scan n, up to its first await that waits for
\* the network.  fetchRecentTrades answers [] at once for no markets or in
\* simulation mode.
runCycle(s, n, first) ==
    IF s.cycleRunningRef
    THEN IF first THEN ArmInterval(s, n) ELSE s
    ELSE LET guarded == [s EXCEPT !.cycleRunningRef = TRUE,
                                  !.statusMessage = "Scanning Trade Feed..."]
         IN  IF s.scans[n].mk = <<>> \/ s.scans[n].sim
             THEN CycleFinally([guarded EXCEPT !.statusMessage =
                                    "No matching activity found yet..."], n, first)
             ELSE [guarded EXCEPT !.cycles = Append(@, NewCycle(n, s.scans[n], first))]

\* Whether runCycle with the closure (mk, sim) leaves at most maxCycles
\* invocations awaiting the network.
CanRunCycle(s, mk, sim, maxCycles) ==
    s.cycleRunningRef \/ mk = <<>> \/ sim \/ Len(s.cycles) < maxCycles

-----------------------------------------------------------------------------
(* initMarkets (lines 45-57).  getTrendingMarkets(true) answers [] at once; *)
(* a live call waits for the network.                                       *)

initMarketsAnswer(s, useSim, m) ==
    IF m = <<>> /\ ~useSim
    THEN [s EXCEPT !.statusMessage = "Data Feed Error: Local Proxy required."]
    ELSE [s EXCEPT !.markets = m, !.statusMessage = "Connected."]

\* A call nothing awaits: from the mount effect and the two toggles.
initMarkets(s, useSim) ==
    IF useSim
    THEN initMarketsAnswer([s EXCEPT !.statusMessage = "Initializing Demo Mode..."],
                           TRUE, <<>>)
    ELSE [s EXCEPT !.statusMessage = "Connecting to Polymarket...",
                   !.initCalls = @ + 1]

-----------------------------------------------------------------------------
(* processQueue inside runCycle. *)

\* Lines 154-158: the functional update of the ledger.
setAlertsMerge(s, validAlerts) == [s EXCEPT !.alerts = MergeAlerts(validAlerts, @)]

\* The run of cycle c has moved to res = [run, sh]: Promise.all settles
\* when a worker has rejected or all have left their loops.
QueueAdvance(s, c, res) ==
    LET moved == WithShared([s EXCEPT !.cycles[c].pc = "queue",
                                      !.cycles[c].run = res.run], res.sh)
        returned == [moved EXCEPT !.earlyReturn = @ \/ ~Drained(res.run)]
    IN  IF res.run.rejected THEN CycleCatch(returned, c)
        ELSE IF AllSettled(res.run) THEN CycleMerge(returned, c, res.run.results)
        ELSE moved

\* The evaluation that is w-th among the pending ones of cycle c has taken
\* a step that ended as r; when it settled, its worker goes on with the
\* loop.
WorkerStep(s, c, w, r) ==
    LET cy == s.cycles[c]
    IN  IF r.st = "await"
        THEN WithShared([s EXCEPT !.cycles[c].run.workers[w] = r.ev], r.sh)
        ELSE QueueAdvance(s, c,
                 WorkerLoop(WorkerSettle([cy.run EXCEPT !.workers = RemoveAt(@, w)], r),
                            cy.mk, cy.sim, r.sh))

\* runCycle without the filter of line 143: every fetched trade is a
\* candidate.
FetchAnswerUnfiltered(s, c, recentTrades) ==
    LET cy == s.cycles[c]
    IN  IF Len(recentTrades) = 0
        THEN CycleFinally([s EXCEPT !.statusMessage = "No matching activity found yet...",
                                    !.cycles = RemoveAt(@, c)], cy.scan, cy.first)
        ELSE QueueAdvance([s EXCEPT !.statusMessage = "Analyzing active signals..."], c,
                          processQueue(recentTrades, QueueConcurrency, cy.mk, cy.sim,
                                       Shared(s)))

\* runCycle clearing the view when it reports that no candidate was found.
FetchAnswerClearing(s, c, recentTrades) ==
    LET cy == s.cycles[c]
        candidates == SelectSeq(recentTrades, LAMBDA t : t.size > Units(20))
    IN  IF Len(candidates) = 0
        THEN CycleFinally([s EXCEPT !.statusMessage = "No matching activity found yet...",
                                    !.alerts = <<>>,
                                    !.cycles = RemoveAt(@, c)], cy.scan, cy.first)
        ELSE QueueAdvance([s EXCEPT !.statusMessage = "Analyzing active signals..."], c,
                          processQueue(candidates, QueueConcurrency, cy.mk, cy.sim,
                                       Shared(s)))

\* Lines 140-152: fetchRecentTrades has answered cycle c.
FetchAnswer(s, c, recentTrades) ==
    LET cy == s.cycles[c]
        candidates == SelectSeq(recentTrades, LAMBDA t : t.size > Units(20))
    IN  IF Len(candidates) = 0
        THEN CycleFinally([s EXCEPT !.statusMessage = "No matching activity found yet...",
                                    !.cycles = RemoveAt(@, c)], cy.scan, cy.first)
        ELSE QueueAdvance([s EXCEPT !.statusMessage = "Analyzing active signals..."], c,
                          processQueue(candidates, QueueConcurrency, cy.mk, cy.sim,
                                       Shared(s)))

\* What fetchRecentTrades can answer from the trades on offer: at most n
\* of them, newest first (line 235).
Feeds(trades, n) ==
    {f \in UNION {[1..k -> trades] : k \in 0..n} :
        \A i \in 1..(Len(f) - 1) : f[i].timestamp >= f[i + 1].timestamp}

-----------------------------------------------------------------------------
(* The handlers. *)

Unused(s) == {n \in Scans : s.scans[n].pc = "unused"}
NextScan(s) == IF Unused(s) = {} THEN 1
               ELSE CHOOSE n \in Unused(s) : \A m \in Unused(s) : n <= m

\* startLiveScan without line 128.
startLiveScanUnguarded(s, n) ==
    LET begun == [s EXCEPT !.isScanning = TRUE, !.alerts = <<>>,
                           !.scans[n] = [NoScan EXCEPT !.pc = "first",
                                                       !.sim = s.simulationMode,
                                                       !.mk = s.markets]]
    IN  IF s.markets # <<>> THEN runCycle(begun, n, TRUE)
        ELSE IF s.simulationMode
        THEN runCycle(initMarketsAnswer(
                          [begun EXCEPT !.statusMessage = "Initializing Demo Mode..."],
                          TRUE, <<>>), n, TRUE)
        ELSE [begun EXCEPT !.statusMessage = "Connecting to Polymarket...",
                           !.scans[n].pc = "init"]

\* Lines 127-134 and 169: startLiveScan, as scan n, up to its first await
\* that waits for the network.
startLiveScan(s, n) ==
    IF s.isScanning THEN s
    ELSE LET begun == [s EXCEPT !.isScanning = TRUE, !.alerts = <<>>,
                                !.scans[n] = [NoScan EXCEPT !.pc = "first",
                                                            !.sim = s.simulationMode,
                                                            !.mk = s.markets]]
         IN  IF s.markets # <<>> THEN runCycle(begun, n, TRUE)
             ELSE IF s.simulationMode
             THEN runCycle(initMarketsAnswer(
                               [begun EXCEPT !.statusMessage = "Initializing Demo Mode..."],
                               TRUE, <<>>), n, TRUE)
             ELSE [begun EXCEPT !.statusMessage = "Connecting to Polymarket...",
                                !.scans[n].pc = "init"]

\* Line 133: the initMarkets that scan n awaits has answered m.
ScanInitAnswer(s, n, m) ==
    runCycle([initMarketsAnswer(s, FALSE, m) EXCEPT !.scans[n].pc = "first",
                                                    !.scans[n].mk = m], n, TRUE)

\* Lines 59-65.
toggleSimulation(s) ==
    LET newMode == ~s.simulationMode
    IN  initMarkets([stopScan([s EXCEPT !.simulationMode = newMode])
                        EXCEPT !.alerts = <<>>], newMode)

\* Lines 67-73.
toggleLocalProxy(s) == initMarkets(stopScan(s), s.simulationMode)

\* Line 257: the Live Data tab.
TabLiveClick(s) == [stopScan(s) EXCEPT !.alerts = <<>>]

NoBacktest == [pc |-> "off", mk |-> <<>>, sim |-> FALSE, ev |-> NoEval]

\* Line 258: the Demo Simulation tab; the timeout keeps the markets and the
\* simulationMode of the render that was clicked.
TabBacktestClick(s) ==
    [stopScan(s) EXCEPT !.alerts = <<>>,
                        !.backtest = [NoBacktest EXCEPT !.pc = "timeout",
                                                        !.mk = s.markets,
                                                        !.sim = s.simulationMode]]

\* Lines 261-262: the backtest evaluation has taken a step that ended as r.
BacktestStep(s, r) ==
    LET moved == WithShared(s, r.sh)
    IN  IF r.st = "await"
        THEN [moved EXCEPT !.backtest.pc = r.ev.pc, !.backtest.ev = r.ev]
        ELSE IF r.st = "alert"
        THEN [moved EXCEPT !.alerts = <<r.value>>, !.backtest = NoBacktest]
        ELSE [moved EXCEPT !.backtest = NoBacktest]

\* Lines 258-261: the timeout fires.  getTrendingMarkets(true) answers [].
BacktestFire(s) ==
    LET market == IF s.backtest.mk # <<>> THEN s.backtest.mk[1] ELSE NoMarket
    IN  BacktestStep(s, EvalBegin(BacktestTrade, market, s.backtest.sim, Shared(s)))

-----------------------------------------------------------------------------
(* The actions: one per task. *)

\* The state after the first render and the mount effect (line 181).
InitState ==
    [isScanning |-> FALSE, markets |-> <<>>, simulationMode |-> FALSE,
     statusMessage |-> "Connecting to Polymarket...", alerts |-> <<>>,
     scanIntervalRef |-> 0, cycleRunningRef |-> FALSE, processedTradeIds |-> {},
     marketStatsRef |-> <<>>, scans |-> [n \in Scans |-> NoScan], cycles |-> <<>>,
     initCalls |-> 1, backtest |-> NoBacktest,
     gatePasses |-> [id \in TradeIds |->
                       [passed |-> 0, skipped |-> FALSE, fused |-> FALSE]],
     statsFed |-> <<>>, earlyReturn |-> FALSE]

Is(s) ==
    \E t \in {s} :
        /\ isScanning = t.isScanning
        /\ markets = t.markets
        /\ simulationMode = t.simulationMode
        /\ statusMessage = t.statusMessage
        /\ alerts = t.alerts
        /\ scanIntervalRef = t.scanIntervalRef
        /\ cycleRunningRef = t.cycleRunningRef
        /\ processedTradeIds = t.processedTradeIds
        /\ marketStatsRef = t.marketStatsRef
        /\ scans = t.scans
        /\ cycles = t.cycles
        /\ initCalls = t.initCalls
        /\ backtest = t.backtest
        /\ gatePasses = t.gatePasses
        /\ statsFed = t.statsFed
        /\ earlyReturn = t.earlyReturn

Init == Is(InitState)

\* startLiveScan is called (the header button calls it when idle).
Start(maxStarts, maxCycles) ==
    /\ ~isScanning => /\ Unused(State) # {}
                      /\ NextScan(State) <= maxStarts
                      /\ CanRunCycle(State, markets, simulationMode, maxCycles)
    /\ Becomes(startLiveScan(State, NextScan(State)))

Stop == Becomes(stopScan(State))

\* The interval of scan n fires.
Tick(maxCycles) ==
    \E n \in Scans :
        /\ scans[n].timer
        /\ CanRunCycle(State, scans[n].mk, scans[n].sim, maxCycles)
        /\ Becomes(runCycle(State, n, FALSE))

ScanInit(maxCycles) ==
    \E n \in Scans, m \in {<<>>, FetchedMarkets} :
        /\ scans[n].pc = "init"
        /\ CanRunCycle(State, m, scans[n].sim, maxCycles)
        /\ Becomes(ScanInitAnswer(State, n, m))

InitAnswer ==
    \E m \in {<<>>, FetchedMarkets} :
        /\ initCalls > 0
        /\ Becomes(initMarketsAnswer([State EXCEPT !.initCalls = @ - 1], FALSE, m))

Fetch(trades, maxLen) ==
    \E c \in InFlight :
        /\ cycles[c].pc = "fetch"
        /\ \E f \in Feeds(trades, maxLen) : Becomes(FetchAnswer(State, c, f))

Pending(c) == 1..Len(cycles[c].run.workers)

Whales ==
    \E c \in InFlight, ans \in WhaleAnswers :
        \E w \in Pending(c) :
            /\ cycles[c].run.workers[w].pc = "whales"
            /\ LET r == EvalWhales(cycles[c].run.workers[w], ans, Shared(State))
               IN  Becomes(WorkerStep(State, c, w, r))

Wallet ==
    \E c \in InFlight, ans \in WalletAnswers :
        \E w \in Pending(c) :
            /\ cycles[c].run.workers[w].pc = "wallet"
            /\ LET r == EvalWallet(cycles[c].run.workers[w], ans, Shared(State))
               IN  Becomes(WorkerStep(State, c, w, r))

Analysis ==
    \E c \in InFlight :
        \E w \in Pending(c) :
            /\ cycles[c].run.workers[w].pc = "analyze"
            /\ \E ans \in AnalyzerAnswers(cycles[c].run.workers[w].heur.factors) :
                  LET r == EvalAnalysis(cycles[c].run.workers[w], ans, Shared(State))
                  IN  Becomes(WorkerStep(State, c, w, r))

ToggleSimulation ==
    /\ simulationMode => initCalls < MaxInits
    /\ Becomes(toggleSimulation(State))

ToggleLocalProxy ==
    /\ ~simulationMode => initCalls < MaxInits
    /\ Becomes(toggleLocalProxy(State))

TabLive == Becomes(TabLiveClick(State))

TabBacktest ==
    /\ backtest.pc = "off"
    /\ Becomes(TabBacktestClick(State))

BacktestTimeout ==
    /\ backtest.pc = "timeout"
    /\ Becomes(BacktestFire(State))

BacktestWhales ==
    \E ans \in WhaleAnswers :
        /\ backtest.pc = "whales"
        /\ LET r == EvalWhales(backtest.ev, ans, Shared(State))
           IN  Becomes(BacktestStep(State, r))

BacktestWallet ==
    \E ans \in WalletAnswers :
        /\ backtest.pc = "wallet"
        /\ LET r == EvalWallet(backtest.ev, ans, Shared(State))
           IN  Becomes(BacktestStep(State, r))

BacktestAnalysis ==
    /\ backtest.pc = "analyze"
    /\ \E ans \in AnalyzerAnswers(backtest.ev.heur.factors) :
          LET r == EvalAnalysis(backtest.ev, ans, Shared(State))
          IN  Becomes(BacktestStep(State, r))

-----------------------------------------------------------------------------
(* The scheduler and the pipeline: start, stop, the interval and the       *)
(* answers of the network.                                                 *)

SchedTrades == {tA}

Next ==
    \/ Start(MaxStarts, MaxCycles)
    \/ Stop
    \/ Tick(MaxCycles)
    \/ ScanInit(MaxCycles)
    \/ InitAnswer
    \/ Fetch(SchedTrades, MaxFetch)
    \/ Whales
    \/ Wallet
    \/ Analysis

Spec == Init /\ [][Next]_vars

-----------------------------------------------------------------------------
(* The whole application: the scheduler and the pipeline with the toggles, *)
(* the tabs and the backtest.                                              *)

AppTrades == {tA, tA2}
AppStarts == 1
AppCycles == 1
AppFetch == 2

NextApp ==
    \/ Start(AppStarts, AppCycles)
    \/ Stop
    \/ Tick(AppCycles)
    \/ ScanInit(AppCycles)
    \/ InitAnswer
    \/ Fetch(AppTrades, AppFetch)
    \/ Whales
    \/ Wallet
    \/ Analysis
    \/ ToggleSimulation
    \/ ToggleLocalProxy
    \/ TabLive
    \/ TabBacktest
    \/ BacktestTimeout
    \/ BacktestWhales
    \/ BacktestWallet
    \/ BacktestAnalysis

SpecApp == Init /\ [][NextApp]_vars

-----------------------------------------------------------------------------
(* One scan cycle: the markets are connected, startLiveScan has been       *)
(* called and its first runCycle awaits the trade feed.                    *)

InitCycle ==
    Is(startLiveScan(initMarketsAnswer([InitState EXCEPT !.initCalls = 0],
                                       FALSE, FetchedMarkets), 1))

NextCycle ==
    \/ Fetch(FeedTrades, MaxItems)
    \/ Whales
    \/ Wallet
    \/ Analysis

SpecCycle == InitCycle /\ [][NextCycle]_vars

\* The same cycle over a feed of four trades of distinct ids.
SettleTrades == {tA, tB, tC, tE}

NextSettle ==
    \/ Fetch(SettleTrades, MaxItems)
    \/ Whales
    \/ Wallet
    \/ Analysis

\* What is pending in the cycle.
FetchPending == \E c \in InFlight : cycles[c].pc = "fetch"
AnswerPending(pc) ==
    \E c \in InFlight : \E w \in Pending(c) : cycles[c].run.workers[w].pc = pc

\* The network answers every request: weak fairness of each answer,
\* WF_vars(A) with ENABLED <<A>>_vars written as the state predicate it
\* equals (a request of that kind is pending).
SpecCycleFair ==
    /\ InitCycle
    /\ [][NextSettle]_vars
    /\ <>[]FetchPending => []<><<Fetch(SettleTrades, MaxItems)>>_vars
    /\ <>[]AnswerPending("whales") => []<><<Whales>>_vars
    /\ <>[]AnswerPending("wallet") => []<><<Wallet>>_vars
    /\ <>[]AnswerPending("analyze") => []<><<Analysis>>_vars

-----------------------------------------------------------------------------
(* The ledger at capacity: the markets are connected and the scanner is    *)
(* idle; scan cycles are taken whole, each merging the alerts of the next  *)
(* trades of a long feed, between tab switches and backtests.              *)

MaxLedgerIds == 54
BatchSizes == {2, 3}

\* The alert of the k-th trade of the feed: ids are distinct, timestamps
\* grow, scores lie in 41..89 and repeat.
LedgerAlert(k) ==
    LET score == 41 + ((k * 7) % 13) * 4
    IN  [id |-> ToString(k),
         trade |-> [tB EXCEPT !.id = ToString(k), !.timestamp = 10 + k],
         suspicionScore |-> score,
         level |-> LevelOf(RInt(score)),
         factors |-> <<"Significant Price Impact">>,
         walletStats |-> "undefined"]

LedgerIds == {ToString(k) : k \in 1..MaxLedgerIds}

\* The trades of the feed evaluated so far.
LedgerFed == Cardinality(processedTradeIds \cap LedgerIds)

\* Lines 94-95 for each trade of the batch and lines 154-161 for the batch.
LedgerMerge ==
    \E size \in BatchSizes :
        /\ LedgerFed + size <= MaxLedgerIds
        /\ LET batch == [i \in 1..size |-> LedgerAlert(LedgerFed + i)]
           IN  Becomes(setAlertsMerge(
                   [State EXCEPT !.processedTradeIds =
                                     @ \cup {batch[i].id : i \in 1..size}],
                   batch))

InitLedger ==
    Is(initMarketsAnswer([InitState EXCEPT !.initCalls = 0], FALSE, FetchedMarkets))

NextLedger ==
    \/ LedgerMerge
    \/ TabLive
    \/ TabBacktest
    \/ BacktestTimeout
    \/ BacktestWhales
    \/ BacktestWallet
    \/ BacktestAnalysis

SpecLedger == InitLedger /\ [][NextLedger]_vars

-----------------------------------------------------------------------------
(* The Running Statistics Tracker alone: updateMarketStats is fed sizes,   *)
(* market by market, in every order.                                       *)

MaxFed == 5         \* sizes fed to one market
StatSizes == {Units(40), Units(100), Units(400)}

StatsFeed ==
    \E m \in MarketIds, size \in StatSizes :
        /\ Len(IF m \in DOMAIN statsFed THEN statsFed[m] ELSE <<>>) < MaxFed
        /\ Becomes([State EXCEPT
                       !.marketStatsRef = updateMarketStats(@, m, size),
                       !.statsFed = Fed(@, m, size)])

InitStats == Is([InitState EXCEPT !.initCalls = 0])

NextStats == StatsFeed

SpecStats == InitStats /\ [][NextStats]_vars

-----------------------------------------------------------------------------
(* Properties of the scheduler (Spec). *)

\* The interval of scan n fires and its callback runs.
TickOf(n) == scans[n].timer /\ Becomes(runCycle(State, n, FALSE))

\* A cycle of scan n is executing, and stopScan has not run since scan n
\* was started.
CycleOfScanInFlight(n) ==
    /\ ~scans[n].stopped
    /\ \E c \in InFlight : cycles[c].scan = n

\* C1: at most one scan cycle is past the guard and not yet completed.
C1_AtMostOneCycle == Len(cycles) <= 1

\* C2: an interval tick that fires while a cycle of the same startLiveScan is
\* in flight, with no stopScan since that startLiveScan, changes no state.
C2_TickDuringCycleChangesNothing ==
    [][\A n \in Scans : (CycleOfScanInFlight(n) /\ TickOf(n)) => UNCHANGED vars]_vars

\* C9: while the scheduler is idle an interval tick starts no cycle: it
\* neither takes the guard nor adds a cycle.
C9_NoCycleByTimerWhileIdle ==
    [][\A n \in Scans : (~isScanning /\ TickOf(n)) =>
          (cycleRunningRef' = cycleRunningRef /\ cycles' = cycles)]_vars

\* C10: startLiveScan called while isScanning changes nothing: the alerts
\* stay, no cycle runs and no interval is armed.
C10_StartWhileScanningIsNoOp ==
    [][(isScanning /\ Start(MaxStarts, MaxCycles)) => UNCHANGED vars]_vars

\* The scheduler is scanning with alerts on view, a cycle in flight and a
\* further startLiveScan possible.
C10_Witness ==
    /\ isScanning
    /\ alerts # <<>>
    /\ Len(cycles) = 1
    /\ Unused(State) # {}

\* The first runCycle of scan n is invoked in this step: by startLiveScan
\* itself, or when the initMarkets it awaited answers.
FirstCycleInvoked(n) ==
    /\ scans[n].pc \in {"unused", "init"}
    /\ scans'[n].pc \in {"first", "done"}

\* A cycle that the startLiveScan of scan n awaits is in flight.
FirstCycleInFlight(cs, n) ==
    \E c \in 1..Len(cs) : cs[c].scan = n /\ cs[c].first

\* C11: startLiveScan called while idle sets isScanning and empties the
\* alerts in the same step; its first runCycle passes the guard, so that one
\* cycle runs; and its interval is armed only when no first cycle of it is
\* in flight any more.
C11_StartRunsOneCycleThenArms ==
    /\ [][(~isScanning /\ Start(MaxStarts, MaxCycles)) =>
             (isScanning' /\ alerts' = <<>>)]_vars
    /\ [][\A n \in Scans : FirstCycleInvoked(n) => ~cycleRunningRef]_vars
    /\ [](\A n \in Scans : scans[n].timer => ~FirstCycleInFlight(cycles, n))

-----------------------------------------------------------------------------
(* Properties of the application (SpecApp). *)

\* The trades evaluateTrade is called with.
EvaluatedTrades == FeedTrades \cup {BacktestTrade}

\* C3: for every trade id at most one evaluation passes the dedup gate, and
\* evaluateTrade of a trade whose id is marked returns null at once: it
\* leaves processedTradeIds and the stats as they are and awaits no oracle.
C3_DedupGate ==
    /\ \A id \in TradeIds : gatePasses[id].passed <= 1
    /\ \A t \in EvaluatedTrades, m \in MarketIds \cup {NoMarket}, sim \in BOOLEAN :
          t.id \in processedTradeIds =>
              LET r == EvalBegin(t, m, sim, Shared(State))
              IN  /\ r.st = "null"
                  /\ r.sh.processed = processedTradeIds
                  /\ r.sh.stats = marketStatsRef

\* A cycle has passed two trades of one id to evaluateTrade: the first
\* passed the gate and is still pending, the second was skipped.
C3_Witness ==
    \E c \in InFlight :
        LET run == cycles[c].run
        IN  \E i, j \in 1..Len(run.handed) :
               /\ i < j
               /\ run.handed[i].id = run.handed[j].id
               /\ \E w \in 1..Len(run.workers) : run.workers[w].trade = run.handed[i]
               /\ gatePasses[run.handed[i].id].passed = 1
               /\ gatePasses[run.handed[i].id].skipped

AlertIds(as) == {as[i].id : i \in 1..Len(as)}
DistinctIds(as) == Cardinality(AlertIds(as)) = Len(as)

\* C4: no trade id occurs twice in the ledger; nor does one occur twice
\* among the ledger and the alerts that the cycles in flight have collected
\* and will merge.
C4_LedgerIdsDistinct ==
    /\ DistinctIds(alerts)
    /\ \A c \in InFlight :
          /\ DistinctIds(cycles[c].run.results)
          /\ AlertIds(cycles[c].run.results) \cap AlertIds(alerts) = {}
          /\ \A d \in InFlight \ {c} :
                AlertIds(cycles[c].run.results) \cap AlertIds(cycles[d].run.results) = {}

\* The ledger holds the alert of a trade that was delivered again and
\* skipped at the gate.
C4_Witness ==
    \E i \in 1..Len(alerts) :
        /\ alerts[i].id \in {t.id : t \in FeedTrades}
        /\ gatePasses[alerts[i].id].skipped

-----------------------------------------------------------------------------
(* Properties of the ledger at capacity (SpecLedger). *)

\* a stands before b in the order of the ledger: by suspicionScore
\* descending, then by trade timestamp descending.
InLedgerOrder(a, b) ==
    \/ a.suspicionScore > b.suspicionScore
    \/ /\ a.suspicionScore = b.suspicionScore
       /\ a.trade.timestamp >= b.trade.timestamp

-----------------------------------------------------------------------------
(* Properties of one scan cycle (SpecCycle, SpecCycleFair). *)

\* C6: in every run of processQueue at most QueueConcurrency evaluations
\* are pending.
C6_AtMostKInFlight ==
    \A c \in InFlight : Len(cycles[c].run.workers) <= QueueConcurrency

\* QueueConcurrency evaluations are pending while a further candidate
\* waits in the queue.
C6_Witness ==
    \E c \in InFlight :
        LET run == cycles[c].run
        IN  /\ Len(run.workers) = QueueConcurrency
            /\ Len(run.items) > QueueConcurrency
            /\ run.queue # <<>>

\* C7: whenever processQueue returns, every item has been passed to the
\* evaluation once and no evaluation is pending; and when the network
\* answers every request, processQueue returns.
C7_ReturnsWhenAllSettled ==
    /\ []~earlyReturn
    /\ <>(Len(cycles) = 0)

\* processQueue has returned after four candidates of distinct ids passed
\* the gate, and startLiveScan has armed its interval behind it.
C7_Witness ==
    /\ Len(cycles) = 0
    /\ scanIntervalRef = 1
    /\ Cardinality({id \in TradeIds : gatePasses[id].passed = 1}) > QueueConcurrency
    /\ alerts # <<>>

\* C8: the exception of an evaluation never reaches runCycle, and it has
\* the effect of the evaluation returning null: no alert, the worker goes
\* on with the queue, the other evaluations and the results stay.
C8_ThrowIsNoAlert ==
    /\ statusMessage # "Scan interrupted."
    /\ \A c \in InFlight :
          \A w \in 1..Len(cycles[c].run.workers) :
             WorkerStep(State, c, w, Throw(Shared(State)))
                 = WorkerStep(State, c, w, ReturnNull(Shared(State)))

\* The evaluation of tE, one of the first three candidates, has thrown;
\* the other two are pending and the fourth candidate has been taken.
C8_Witness ==
    \E c \in InFlight :
        LET run == cycles[c].run
            pending == {run.workers[w].trade : w \in 1..Len(run.workers)}
        IN  /\ Len(run.handed) = QueueConcurrency + 1
            /\ Len(run.workers) = QueueConcurrency
            /\ \E i \in 1..QueueConcurrency :
                  /\ run.handed[i] = tE
                  /\ pending = {run.handed[j] : j \in 1..Len(run.handed)} \ {tE}
            /\ gatePasses[tE.id].passed = 1
            /\ ~gatePasses[tE.id].skipped

-----------------------------------------------------------------------------
(* Properties of the Running Statistics Tracker (SpecStats). *)

RECURSIVE SumSizes(_)
SumSizes(sizes) ==
    IF sizes = <<>> THEN 0 ELSE Head(sizes) + SumSizes(Tail(sizes))

\* The arithmetic mean of a non-empty sequence, recomputed from the whole.
ArithmeticMean(sizes) == Norm(SumSizes(sizes), Len(sizes))

RECURSIVE SumSquaredDeviations(_, _)
SumSquaredDeviations(sizes, mean) ==
    IF sizes = <<>> THEN RInt(0)
    ELSE LET dev == RSub(RInt(Head(sizes)), mean)
         IN  RAdd(RMul(dev, dev), SumSquaredDeviations(Tail(sizes), mean))

PopulationVariance(sizes) ==
    RDivInt(SumSquaredDeviations(sizes, ArithmeticMean(sizes)), Len(sizes))

\* C12: for every market, the stored count is the number of sizes fed,
\* meanSize their arithmetic mean, m2Size the sum of their squared
\* deviations from the mean, and m2Size / count their population variance.
C12_WelfordAgreesWithBatch ==
    /\ DOMAIN marketStatsRef = DOMAIN statsFed
    /\ \A m \in DOMAIN statsFed :
          LET sizes == statsFed[m]
              stats == marketStatsRef[m]
          IN  /\ stats.count = Len(sizes)
              /\ stats.meanSize = ArithmeticMean(sizes)
              /\ stats.m2Size = SumSquaredDeviations(sizes, ArithmeticMean(sizes))
              /\ RDivInt(stats.m2Size, stats.count) = PopulationVariance(sizes)

\* A market was fed MaxFed sizes, of every kind, and its mean is no integer.
C12_Witness ==
    \E m \in DOMAIN statsFed :
        /\ Len(statsFed[m]) = MaxFed
        /\ Range(statsFed[m]) = StatSizes
        /\ marketStatsRef[m].meanSize[2] # 1
        /\ marketStatsRef[m].m2Size[2] # 1

-----------------------------------------------------------------------------
(* Properties of Score Fusion (SpecCycle, SpecApp). *)

\* The evaluations that await the analyzer, in the cycles and the backtest.
AwaitingAnalysis ==
    {cycles[c].run.workers[w] : <<c, w>> \in
        {cw \in InFlight \X (1..QueueConcurrency) :
            /\ cw[2] <= Len(cycles[cw[1]].run.workers)
            /\ cycles[cw[1]].run.workers[cw[2]].pc = "analyze"}}
    \cup (IF backtest.pc = "analyze" THEN {backtest.ev} ELSE {})

\* r is the integer nearest to x, the upper one of two.
IsRounded(r, x) ==
    /\ ~RLess(x, Norm(2 * r - 1, 2))
    /\ RLess(x, Norm(2 * r + 1, 2))

\* The level that the thresholds give to a score.
LevelOfScore(score) ==
    IF score > 85 THEN "CRITICAL"
    ELSE IF score > 65 THEN "HIGH"
    ELSE IF score > 40 THEN "MEDIUM"
    ELSE "LOW"

\* C13: the alert of an evaluation carries finalScore, the mean of baseScore
\* and the analyzer's score rounded to the nearest integer, and the level
\* that the thresholds 85, 65 and 40 give to finalScore; fusion of (60, 80)
\* is (70, HIGH), of (0, 0) is (0, LOW), of (100, 100) is (100, CRITICAL).
C13_FusionLevelOfFinalScore ==
    /\ Fuse(60, RInt(80)) = [suspicionScore |-> 70, level |-> "HIGH"]
    /\ Fuse(0, RInt(0)) = [suspicionScore |-> 0, level |-> "LOW"]
    /\ Fuse(100, RInt(100)) = [suspicionScore |-> 100, level |-> "CRITICAL"]
    /\ \A ev \in AwaitingAnalysis :
          \A analysis \in AnalyzerAnswers(ev.heur.factors) :
             analysis.wellFormed =>
                LET alert == MakeAlert(ev.trade, ev.heur, analysis,
                                       ev.walletStats, ev.isWhale)
                    mean == RDivInt(RAdd(RInt(ev.heur.baseScore),
                                         analysis.suspicionScore), 2)
                IN  /\ IsRounded(alert.suspicionScore, mean)
                    /\ alert.level = LevelOfScore(alert.suspicionScore)

\* C14: the suspicionScore of every alert, in the ledger and among the
\* results a cycle has collected, is an integer from 0 to 100.
C14_AlertScoreInRange ==
    /\ \A i \in 1..Len(alerts) : alerts[i].suspicionScore \in 0..100
    /\ \A c \in InFlight :
          \A i \in 1..Len(cycles[c].run.results) :
             cycles[c].run.results[i].suspicionScore \in 0..100

\* C15: for the backtest trade on the market of liquidity 450000, with the
\* whale flag set and stats that give it a z-score above 3, the scorer
\* reports five factors and a baseScore of 100 or more, and fusion with every
\* analyzer score gives the level CRITICAL.
C15_ScenarioIsCritical ==
    LET stats == Welford(StatsOf(marketStatsRef, "m2"), BacktestTrade.size)
        heur == analyzeTradeHeuristics(BacktestTrade, "m2", stats, TRUE)
    IN  (Liquidity("m2") = Units(450000) /\ ZScoreAbove(BacktestTrade.size, stats, 3)) =>
            /\ Len(heur.factors) = 5
            /\ heur.baseScore >= 100
            /\ \A score \in AnalyzerScores :
                  Fuse(heur.baseScore, score).level = "CRITICAL"

-----------------------------------------------------------------------------
(* Properties of the analyzer's fallback (SpecCycle). *)

\* The tags of the scorer, in the order it appends them.
FactorTags == <<"High Size Z", "Significant Liquidity Impact",
                "Speculative Accumulation", "Verified Whale Activity",
                "Blacklisted/Known Insider">>

\* C16: the fallback of analyzeSuspicion for n preliminary factors has the
\* score min(50, 15 n), for every n the scorer can report and for the
\* factors of every evaluation that awaits the analyzer; for 3 factors the
\* score is 45 and the level MEDIUM.
C16_FallbackScore ==
    /\ \A n \in 0..Len(FactorTags) :
          AnalyzerFallback(SubSeq(FactorTags, 1, n)).suspicionScore
              = RInt(IF 15 * n < 50 THEN 15 * n ELSE 50)
    /\ AnalyzerFallback(SubSeq(FactorTags, 1, 3)).suspicionScore = RInt(45)
    /\ AnalyzerFallback(SubSeq(FactorTags, 1, 3)).riskLevel = "MEDIUM"
    /\ \A ev \in AwaitingAnalysis :
          LET n == Len(ev.heur.factors)
              fallback == AnalyzerFallback(ev.heur.factors)
          IN  /\ fallback \in AnalyzerAnswers(ev.heur.factors)
              /\ fallback.suspicionScore = RInt(IF 15 * n < 50 THEN 15 * n ELSE 50)
              /\ n = 3 => fallback.riskLevel = "MEDIUM"

\* A cycle has collected the alert of a trade with three heuristic factors
\* (baseScore 90) whose analysis was the fallback: score 45, no further
\* factor, fused to 68.
C16_Witness ==
    \E c \in InFlight :
        \E i \in 1..Len(cycles[c].run.results) :
            LET alert == cycles[c].run.results[i]
            IN  /\ alert.trade = tA
                /\ Len(alert.factors) = 3
                /\ alert.suspicionScore = 68

\* C17: whatever analyzeSuspicion resolves to, the evaluation that awaits
\* it returns an alert; when the answer is malformed, it is the alert that
\* the fallback gives.
C17_AnalyzerFailureYieldsAlert ==
    \A ev \in AwaitingAnalysis :
        \A analysis \in AnalyzerAnswers(ev.heur.factors) :
            /\ EvalAnalysis(ev, analysis, Shared(State)).st = "alert"
            /\ ~analysis.wellFormed =>
                  EvalAnalysis(ev, analysis, Shared(State))
                      = EvalAnalysis(ev, AnalyzerFallback(ev.heur.factors),
                                     Shared(State))

-----------------------------------------------------------------------------
(* Properties of a cycle without trades (Spec). *)

\* fetchRecentTrades answers cycle c with no trades: the source had none,
\* or the fetch failed and fetchRecentTrades caught the error.
EmptyFetchOf(c) ==
    /\ cycles[c].pc = "fetch"
    /\ Becomes(FetchAnswer(State, c, <<>>))

\* C18: when the fetch of a cycle yields no trades, the cycle ends with the
\* status message of an empty feed and not in the catch of runCycle,
\* isScanning stays, the guard is released, and a tick of any armed interval
\* would then pass the guard and run a cycle: one more cycle awaits the feed
\* (with no markets the cycle ends at once, with the same message).
C18_EmptyFetchEndsCycle ==
    [][\A c \in InFlight : EmptyFetchOf(c) =>
          /\ statusMessage' = "No matching activity found yet..."
          /\ isScanning' = isScanning
          /\ ~cycleRunningRef'
          /\ Len(cycles') = Len(cycles) - 1
          /\ \A n \in Scans : scans'[n].timer =>
                LET next == runCycle(State', n, FALSE)
                IN  IF scans'[n].mk # <<>> /\ ~scans'[n].sim
                    THEN /\ next.cycleRunningRef
                         /\ next.statusMessage = "Scanning Trade Feed..."
                         /\ Len(next.cycles) = Len(cycles') + 1
                    ELSE next.statusMessage = "No matching activity found yet..."]_vars

\* A cycle on connected markets has ended without trades: the scheduler is
\* scanning, the guard is free, no cycle is in flight and the interval of
\* the scan is armed.
C18_Witness ==
    /\ isScanning
    /\ statusMessage = "No matching activity found yet..."
    /\ ~cycleRunningRef
    /\ cycles = <<>>
    /\ scanIntervalRef # 0
    /\ scans[scanIntervalRef].timer
    /\ scans[scanIntervalRef].mk # <<>>
    /\ ~scans[scanIntervalRef].stopped

-----------------------------------------------------------------------------
(* Properties of the Heuristic Scorer (SpecCycle). *)

\* The weights of the five conditions, in the order of FactorTags.
FactorWeights == <<35, 25, 20, 30, 50>>

\* Which of the five conditions a trade triggers.
Triggered(trade, marketId, stats, isWhale) ==
    <<ZScoreAbove(trade.size, stats, 3),
      Liquidity(marketId) > 0
          /\ RLess(Norm(1, 100), Norm(trade.size, Liquidity(marketId))),
      trade.price < 20 /\ trade.size > Units(200),
      isWhale,
      toLowerCase(trade.makerAddress) = toLowerCase(InsiderAddress)>>

RECURSIVE WeightSum(_, _)
\* The sum of the weights of the first n conditions that are triggered.
WeightSum(triggered, n) ==
    IF n = 0 THEN 0
    ELSE WeightSum(triggered, n - 1) + (IF triggered[n] THEN FactorWeights[n] ELSE 0)

\* C19: for every trade, every market with the stats the tracker holds for
\* it, and either whale flag, the scorer's baseScore is the sum of the
\* weights of the triggered conditions, unclamped, and its factors are the
\* tags of the triggered conditions, one each; the evaluations of the
\* pipeline carry that result.
C19_ScoreIsSumOfTriggeredWeights ==
    /\ \A trade \in {t \in EvaluatedTrades : t.makerAddress # NoAddress},
          marketId \in MarketIds \cup {DryMarket}, isWhale \in BOOLEAN :
          \A stats \in {StatsOf(marketStatsRef, marketId)} :
          \A heur \in {analyzeTradeHeuristics(trade, marketId, stats, isWhale)},
             triggered \in {Triggered(trade, marketId, stats, isWhale)} :
              /\ heur.baseScore = WeightSum(triggered, Len(FactorWeights))
              /\ Len(heur.factors)
                    = Cardinality({i \in 1..Len(FactorTags) : triggered[i]})
              /\ \A i \in 1..Len(FactorTags) :
                    triggered[i] <=> FactorTags[i] \in Range(heur.factors)
    /\ \A ev \in AwaitingAnalysis :
          ev.heur = analyzeTradeHeuristics(ev.trade, ev.marketId, ev.stats, ev.isWhale)

\* Two evaluations of one cycle await the analyzer with different scores,
\* one of them with three factors (35 + 25 + 30).
C19_Witness ==
    \E ev1, ev2 \in AwaitingAnalysis :
        /\ ev1.heur.baseScore = 90
        /\ Len(ev1.heur.factors) = 3
        /\ ev2.heur.baseScore = 20

-----------------------------------------------------------------------------
(* Properties of the Dedup Ledger (SpecApp). *)

\* C20: no step of the application other than a toggle of the simulation
\* mode removes a trade id from processedTradeIds.
C20_DedupLedgerGrows ==
    [][ToggleSimulation \/ processedTradeIds \subseteq processedTradeIds']_vars

\* The ledger holds the id of a scanned trade and the id of the backtest
\* trade, marked in different scans, and the scanner is idle with nothing
\* in flight.
C20_Witness ==
    /\ {tA.id, BacktestTrade.id} \subseteq processedTradeIds
    /\ ~isScanning
    /\ cycles = <<>>
    /\ backtest.pc = "off"

-----------------------------------------------------------------------------
(* Properties of the Alert Ledger in the application (SpecApp). *)

\* C21 as stated: the ledger holds an alert of a trade id exactly when an
\* evaluation of that id was fused with a qualifying baseScore.
C21_AlertIffFused ==
    \A id \in TradeIds : id \in AlertIds(alerts) <=> gatePasses[id].fused

\* C21, the direction that holds: every alert of the ledger, and every
\* alert a cycle has collected, is of a trade id whose evaluation was fused
\* with a qualifying baseScore.
C21_AlertOnlyIfFused ==
    /\ \A id \in AlertIds(alerts) : gatePasses[id].fused
    /\ \A c \in InFlight :
          \A id \in AlertIds(cycles[c].run.results) : gatePasses[id].fused

\* The ledger of a running scan holds the alert of a scanned trade.
C21_Witness ==
    /\ isScanning
    /\ tA.id \in AlertIds(alerts)
    /\ gatePasses[tA.id].fused
    /\ gatePasses[tA.id].passed = 1

-----------------------------------------------------------------------------
(* Properties of the stats under concurrent evaluations (SpecCycle). *)

RECURSIVE FedBy(_, _)
\* The sizes that the trades of a sequence feed to market m when they are
\* evaluated in its order, ledger and stats empty before: those of the
\* first trade of each id.
FedBy(trades, m) ==
    IF trades = <<>> THEN <<>>
    ELSE LET front == SubSeq(trades, 1, Len(trades) - 1)
             last == trades[Len(trades)]
         IN  IF last.marketId = m /\ \A i \in 1..Len(front) : front[i].id # last.id
             THEN Append(FedBy(front, m), last.size)
             ELSE FedBy(front, m)

\* C23: the stats of every market have had one update for each trade of the
\* market that passed the gate, no id passing twice, and each update folded
\* its size into the result of the one before: the stats are those of the
\* sequence of the sizes fed.
C23_OneUpdatePerPassedTrade ==
    /\ \A id \in TradeIds : gatePasses[id].passed <= 1
    /\ \A m \in MarketIds :
          /\ StatsOf(marketStatsRef, m).count
                = Cardinality({id \in TradeIds :
                                  /\ gatePasses[id].passed = 1
                                  /\ \E t \in FeedTrades : t.id = id /\ t.marketId = m})
          /\ m \in DOMAIN statsFed =>
                /\ marketStatsRef[m].count = Len(statsFed[m])
                /\ marketStatsRef[m].meanSize = ArithmeticMean(statsFed[m])
                /\ marketStatsRef[m].m2Size
                      = SumSquaredDeviations(statsFed[m], ArithmeticMean(statsFed[m]))

\* Two evaluations of trades of one market are pending at once, both past
\* the gate and the update of that market's stats.
C23_Witness ==
    \E c \in InFlight :
        \E v, w \in 1..Len(cycles[c].run.workers) :
            /\ v # w
            /\ cycles[c].run.workers[v].trade.marketId
                  = cycles[c].run.workers[w].trade.marketId
            /\ cycles[c].run.workers[v].trade.size # cycles[c].run.workers[w].trade.size
            /\ StatsOf(marketStatsRef, cycles[c].run.workers[v].trade.marketId).count = 2

\* C24: the workers take the candidates in the order of the candidate list,
\* and the sizes fed to the stats of a market are those of the candidates
\* taken so far that passed the gate, in that order.
C24_StatsInCandidateOrder ==
    \A c \in InFlight :
        LET run == cycles[c].run
        IN  /\ run.handed = SubSeq(run.items, 1, Len(run.handed))
            /\ \A m \in MarketIds :
                  (IF m \in DOMAIN statsFed THEN statsFed[m] ELSE <<>>)
                      = FedBy(run.handed, m)

\* The later of two candidates of one market was answered and is awaiting
\* the analyzer while the earlier still awaits its first answer; the market
\* was fed the two sizes in the order of the list.
C24_Witness ==
    \E c \in InFlight :
        LET run == cycles[c].run
        IN  \E v, w \in 1..Len(run.workers) :
               /\ Len(run.items) >= 2
               /\ run.workers[v].trade = run.items[1]
               /\ run.workers[w].trade = run.items[2]
               /\ run.workers[v].trade.marketId = run.workers[w].trade.marketId
               /\ run.workers[v].trade.size # run.workers[w].trade.size
               /\ run.workers[v].pc = "whales"
               /\ run.workers[w].pc = "analyze"
               /\ statsFed[run.workers[v].trade.marketId]
                     = <<run.items[1].size, run.items[2].size>>

-----------------------------------------------------------------------------
(* Properties of the z-score (SpecCycle, SpecStats). *)

\* The stats of a sequence of sizes, recomputed from the whole.
BatchStats(sizes) ==
    IF sizes = <<>> THEN NewStats
    ELSE [count |-> Len(sizes),
          meanSize |-> ArithmeticMean(sizes),
          m2Size |-> SumSquaredDeviations(sizes, ArithmeticMean(sizes))]

\* C25: the stats that a pending evaluation holds for its scorer are those
\* of the sizes fed to the market before the trade's own size.
C25_ScoredAgainstPreUpdateStats ==
    \A c \in InFlight :
        \A w \in 1..Len(cycles[c].run.workers) :
            LET ev == cycles[c].run.workers[w]
                sizes == statsFed[ev.marketId]
            IN  ev.pc = "whales" =>
                    \E k \in 0..(Len(sizes) - 1) :
                        /\ sizes[k + 1] = ev.trade.size
                        /\ ev.stats = BatchStats(SubSeq(sizes, 1, k))

RECURSIVE SumSquares(_)
SumSquares(sizes) ==
    IF sizes = <<>> THEN 0 ELSE Head(sizes) * Head(sizes) + SumSquares(Tail(sizes))

\* z > k for the z-score of the claim, in integers.  With n sizes of sum S
\* and sum of squares Q the mean is S / n and the variance (n Q - S^2) / n^2,
\* so (size - mean) / sqrt(variance) > k, for k >= 0, is n size > S and
\* (n size - S)^2 > k^2 (n Q - S^2); the reference is (size - 200) / 300.
ReferenceZAbove(size, sizes, k) ==
    LET n == Len(sizes)
        S == SumSizes(sizes)
        Q == SumSquares(sizes)
    IN  IF n < 5 THEN size - Units(200) > k * Units(300)
        ELSE IF n * Q = S * S THEN 0 > k
        ELSE /\ n * size > S
             /\ (n * size - S) * (n * size - S) > k * k * (n * Q - S * S)

\* The scorer's threshold of the z-score; the z-score is compared with the
\* thresholds up to it.
ZScoreThreshold == 3

\* C26: for the stats of every market and every size, the z-score exceeds a
\* threshold exactly when the z-score of the claim does: the reference mean
\* and spread below five sizes, (size - meanSize) / sqrt(m2Size / count)
\* from five on, and 0 when the standard deviation is 0.
C26_ZScoreFormula ==
    \A m \in MarketIds, size \in StatSizes, k \in 0..ZScoreThreshold :
        ZScoreAbove(size, StatsOf(marketStatsRef, m), k)
            <=> ReferenceZAbove(size, IF m \in DOMAIN statsFed THEN statsFed[m] ELSE <<>>, k)

\* One market has five sizes of spread 0 below a size of the feed (the
\* division is not made), the other five sizes of positive spread and a size
\* more than three standard deviations above their mean.
C26_Witness ==
    \E m, n \in MarketIds :
        /\ StatsOf(marketStatsRef, m).count = ColdStartCount
        /\ StatsOf(marketStatsRef, m).m2Size = RInt(0)
        /\ RLess(StatsOf(marketStatsRef, m).meanSize, RInt(Units(400)))
        /\ ~ZScoreAbove(Units(400), StatsOf(marketStatsRef, m), 0)
        /\ StatsOf(marketStatsRef, n).count = ColdStartCount
        /\ StatsOf(marketStatsRef, n).m2Size # RInt(0)
        /\ ZScoreAbove(Units(400), StatsOf(marketStatsRef, n), 3)

-----------------------------------------------------------------------------
(* Properties of the qualification (SpecCycle). *)

\* The holder oracle answers ans to the evaluation that is w-th among the
\* pending ones of cycle c, and the evaluation ends as EvalWhales yields.
HolderAnswerOf(c, w, ans) ==
    /\ cycles[c].run.workers[w].pc = "whales"
    /\ Becomes(WorkerStep(State, c, w,
                          EvalWhales(cycles[c].run.workers[w], ans, Shared(State))))

\* C27: an evaluation that awaits the wallet oracle or the analyzer has a
\* baseScore above the threshold, and an evaluation that has called the
\* holder oracle does not then score at or below the threshold and return
\* without an alert.
C27_NoOracleBelowThreshold ==
    [][\A c \in InFlight, ans \in WhaleAnswers :
          \A w \in Pending(c) :
              /\ cycles[c].run.workers[w].pc \in {"wallet", "analyze"}
                    => cycles[c].run.workers[w].heur.baseScore > QualifyThreshold
              /\ HolderAnswerOf(c, w, ans)
                    => EvalWhales(cycles[c].run.workers[w], ans, Shared(State)).st
                          # "null"]_vars

\* The part of C27 on the wallet oracle and the analyzer alone.
C27_WalletAndAnalyzerAfterQualifying ==
    \A c \in InFlight :
        \A w \in Pending(c) :
            cycles[c].run.workers[w].pc \in {"wallet", "analyze"}
                => cycles[c].run.workers[w].heur.baseScore > QualifyThreshold

-----------------------------------------------------------------------------
(* Properties of the cleared view (SpecApp). *)

\* The state is as a click on the Live Data tab leaves it: stopScan() has
\* run and the view was cleared.  The program keeps no other record of it.
ViewCleared == State = TabLiveClick(State)

\* C28: while the scheduler is stopped, the view cleared and a cycle in
\* flight, no step puts an alert into the view but the backtest's.
C28_ClearedViewStaysEmpty ==
    [][(ViewCleared /\ InFlight # {})
          => AlertIds(alerts') \subseteq {BacktestTrade.id}]_vars

-----------------------------------------------------------------------------
(* Properties of the order of the ledger (SpecLedger). *)

\* Two alerts of new trades that tie in score and timestamp.
TiedAlerts ==
    LET x == LedgerAlert(MaxLedgerIds + 1)
        y == [LedgerAlert(MaxLedgerIds + 2) EXCEPT
                 !.suspicionScore = x.suspicionScore,
                 !.level = x.level,
                 !.trade.timestamp = x.trade.timestamp]
    IN  <<x, y>>

\* C29: the ledger after the merge of two alerts is the same in whichever
\* order their evaluations completed, also when the two tie in score and
\* timestamp.
C29_MergeIndependentOfCompletionOrder ==
    MergeAlerts(<<TiedAlerts[1], TiedAlerts[2]>>, alerts)
        = MergeAlerts(<<TiedAlerts[2], TiedAlerts[1]>>, alerts)

\* The content of the ledger, at least, does not depend on the order while
\* the ledger is below its capacity.
C29_SameContentBelowCapacity ==
    Len(alerts) + 2 <= AlertCapacity =>
        Range(MergeAlerts(<<TiedAlerts[1], TiedAlerts[2]>>, alerts))
            = Range(MergeAlerts(<<TiedAlerts[2], TiedAlerts[1]>>, alerts))

-----------------------------------------------------------------------------
(* Properties of the cycle without candidates (Spec). *)

\* fetchRecentTrades answers cycle c with the feed f, of which no trade
\* passes the filter of line 143.
EmptyCandidatesOf(c, f) ==
    /\ cycles[c].pc = "fetch"
    /\ SelectSeq(f, LAMBDA t : t.size > Units(20)) = <<>>
    /\ Becomes(FetchAnswer(State, c, f))

\* C30: a cycle whose feed leaves no candidate ends with the status message
\* of an empty feed; no trade is handed to the evaluator (no id passes or
\* is stopped at the gate, no size is fed to the stats), and the ledger, the
\* processed ids and the stats are as before.
C30_EmptyCandidatesNoOp ==
    [][\A c \in InFlight : \A f \in Feeds(FeedTrades, MaxFetch) :
          EmptyCandidatesOf(c, f) =>
              /\ statusMessage' = "No matching activity found yet..."
              /\ Len(cycles') = Len(cycles) - 1
              /\ gatePasses' = gatePasses
              /\ statsFed' = statsFed
              /\ alerts' = alerts
              /\ processedTradeIds' = processedTradeIds
              /\ marketStatsRef' = marketStatsRef]_vars

\* A cycle without candidates has ended after a cycle that raised an alert:
\* the ledger, the processed ids and the stats are not empty.
C30_Witness ==
    /\ statusMessage = "No matching activity found yet..."
    /\ cycles = <<>>
    /\ alerts # <<>>
    /\ processedTradeIds # {}
    /\ DOMAIN marketStatsRef # {}

-----------------------------------------------------------------------------
(* Properties of the pre-filter (SpecCycle). *)

\* C31: a trade of the feed of size 20 or less is in no candidate list, its
\* id neither passes nor is stopped at the gate and is not marked as
\* processed, its size is fed to no market's stats, and no alert of it is
\* collected or in the ledger.
C31_BelowMinimumNeverEvaluated ==
    \A t \in {u \in FeedTrades : u.size <= Units(20)} :
        /\ t.id \notin processedTradeIds
        /\ gatePasses[t.id].passed = 0
        /\ ~gatePasses[t.id].skipped
        /\ \A m \in DOMAIN statsFed : t.size \notin Range(statsFed[m])
        /\ t.id \notin AlertIds(alerts)
        /\ \A c \in InFlight :
              /\ t \notin Range(cycles[c].run.items)
              /\ t.id \notin AlertIds(cycles[c].run.results)

\* The state is the one in which the first cycle was answered with a feed
\* that holds a trade of size 20 between two candidates, which are evaluated.
C31_Witness ==
    /\ tD \in FeedTrades
    /\ tD.size <= Units(20)
    /\ State = FetchAnswer(startLiveScan(initMarketsAnswer(
                               [InitState EXCEPT !.initCalls = 0], FALSE, FetchedMarkets), 1),
                           1, <<tA, tD, tB>>)
    /\ \E c \in InFlight : cycles[c].run.items = <<tA, tB>>

-----------------------------------------------------------------------------
(* Properties of the factors of an alert (SpecCycle). *)

\* C32: whatever the analyzer answers to a pending evaluation, the factors
\* of the alert are the tags of the heuristic factors and of the analyzer's,
\* each once; and no alert of the ledger holds a tag twice.
C32_FactorsAreSetUnion ==
    LET NoRepeats(s) == Cardinality(Range(s)) = Len(s)
    IN
    /\ \A i \in 1..Len(alerts) : NoRepeats(alerts[i].factors)
    /\ \A c \in InFlight :
          \A w \in Pending(c) :
              LET ev == cycles[c].run.workers[w]
              IN  ev.pc = "analyze" =>
                      \A ans \in AnalyzerAnswers(ev.heur.factors) :
                          ans.wellFormed =>
                              LET alert == EvalAnalysis(ev, ans, Shared(State)).value
                              IN  /\ Range(alert.factors)
                                        = Range(ev.heur.factors) \cup Range(ans.factors)
                                  /\ NoRepeats(alert.factors)

\* The ledger holds an alert of two heuristic factors that the analyzer's
\* fallback reported again: each is there once.
C32_Witness ==
    \E i \in 1..Len(alerts) :
        /\ Len(alerts[i].factors) = 2
        /\ AnalyzerFactors[1] \notin Range(alerts[i].factors)

-----------------------------------------------------------------------------
(* Properties of the analyzer fallback (SpecCycle). *)

\* C33: for the factors of every evaluation that awaits the analyzer, the
\* riskLevel of the fallback is the level that the thresholds of the fusion
\* assign to the fallback's score.
C33_FallbackLevelFromScore ==
    \A c \in InFlight :
        \A w \in Pending(c) :
            LET ev == cycles[c].run.workers[w]
            IN  ev.pc = "analyze" =>
                    AnalyzerFallback(ev.heur.factors).riskLevel
                        = LevelOf(AnalyzerFallback(ev.heur.factors).suspicionScore)

-----------------------------------------------------------------------------
(* Properties of the interval timers (Spec). *)

\* C35: at most one interval is armed, and none while isScanning is false.
C35_OneTimerNoneWhileIdle ==
    LET ArmedTimers == {n \in Scans : scans[n].timer}
    IN  /\ Cardinality(ArmedTimers) <= 1
        /\ ~isScanning => ArmedTimers = {}

-----------------------------------------------------------------------------
(* Score Fusion alone: one evaluation awaits the analyzer with a baseScore *)
(* drawn from the integers up to the sum of the weights, and the analyzer  *)
(* answers with a whole score.                                             *)

MaxBaseScore == 160         \* 35 + 25 + 20 + 30 + 50
MaxAnalyzerScore == 100     \* suspicionScore: 0-100

\* The first cycle of a scan has fetched tA, and the holder and wallet
\* oracles have answered: the evaluation awaits the analyzer, with a
\* baseScore that is drawn.
InitFusion ==
    \E fetched \in {FetchAnswer(startLiveScan(initMarketsAnswer(
                                      [InitState EXCEPT !.initCalls = 0], FALSE,
                                      FetchedMarkets), 1),
                                  1, <<tA>>)} :
        \E scored \in {WorkerStep(fetched, 1, 1,
                                  EvalWhales(fetched.cycles[1].run.workers[1], {},
                                             Shared(fetched)))} :
            \E awaiting \in {WorkerStep(scored, 1, 1,
                                        EvalWallet(scored.cycles[1].run.workers[1],
                                                   "stats", Shared(scored)))} :
                \E baseScore \in 0..MaxBaseScore :
                    Is([awaiting EXCEPT
                           !.cycles[1].run.workers[1].heur.baseScore = baseScore])

\* A parsed answer of the analyzer with a whole score.
WholeAnswer(score) ==
    [wellFormed |-> TRUE, suspicionScore |-> RInt(score), riskLevel |-> "LOW",
     factors |-> AnalyzerFactors]

AnalysisWhole ==
    \E c \in InFlight, score \in 0..MaxAnalyzerScore :
        \E w \in Pending(c) :
            /\ cycles[c].run.workers[w].pc = "analyze"
            /\ LET r == EvalAnalysis(cycles[c].run.workers[w], WholeAnswer(score),
                                     Shared(State))
               IN  Becomes(WorkerStep(State, c, w, r))

SpecFusion == InitFusion /\ [][AnalysisWhole]_vars

\* C36: for the baseScore of every pending evaluation and every whole
\* analyzer score, the level of the alert, which is that of the unrounded
\* mean, is the level that the thresholds give to the alert's rounded
\* suspicionScore; so it is for every alert of the ledger.
C36_LevelOfRoundedScore ==
    /\ \A i \in 1..Len(alerts) :
          alerts[i].level = LevelOfScore(alerts[i].suspicionScore)
    /\ \A ev \in AwaitingAnalysis, score \in 0..MaxAnalyzerScore :
          LET fused == Fuse(ev.heur.baseScore, RInt(score))
              mean == Norm(ev.heur.baseScore + score, 2)
          IN  /\ IsRounded(fused.suspicionScore, mean)
              /\ fused.level = LevelOf(mean)
              /\ fused.level = LevelOfScore(fused.suspicionScore)

\* The ledger holds an alert of score 86, the first score above the
\* threshold of CRITICAL, to which the mean 85.5 is rounded.
C36_Witness ==
    /\ Len(alerts) = 1
    /\ alerts[1].suspicionScore = 86
    /\ alerts[1].level = "CRITICAL"
    /\ Fuse(71, RInt(100)) = [suspicionScore |-> 86, level |-> "CRITICAL"]

-----------------------------------------------------------------------------
(* Properties of the qualification test (SpecCycle). *)

\* C37: the sum of the weights of any conditions exceeds the threshold
\* exactly when it exceeds 0; an evaluation that the holder oracle answers
\* goes on to the oracles of the alert exactly when the scorer reported a
\* factor and returns without an alert exactly when it reported none; and an
\* evaluation to which the analyzer gives a well-formed answer has a factor
\* and returns an alert.
C37_AlertIffFactorTriggered ==
    /\ \A triggered \in [1..Len(FactorWeights) -> BOOLEAN] :
          WeightSum(triggered, Len(FactorWeights)) > QualifyThreshold
              <=> WeightSum(triggered, Len(FactorWeights)) > 0
    /\ \A c \in InFlight :
          \A w \in Pending(c) :
              LET ev == cycles[c].run.workers[w]
              IN  /\ (ev.pc = "whales" /\ ev.trade.makerAddress # NoAddress) =>
                         \A ans \in WhaleAnswers :
                             LET isWhale == toLowerCase(ev.trade.makerAddress) \in ans
                                 heur == analyzeTradeHeuristics(ev.trade, ev.marketId,
                                                                ev.stats, isWhale)
                                 r == EvalWhales(ev, ans, Shared(State))
                             IN  /\ r.st = "await" <=> heur.factors # <<>>
                                 /\ r.st = "null" <=> heur.factors = <<>>
                  /\ ev.pc \in {"wallet", "analyze"} => ev.heur.factors # <<>>
                  /\ ev.pc = "analyze" =>
                         \A ans \in AnalyzerAnswers(ev.heur.factors) :
                             ans.wellFormed =>
                                 EvalAnalysis(ev, ans, Shared(State)).st = "alert"

\* The cycle is over and its alerts are merged: the trade of size 40, which
\* triggers no condition, passed the gate and has no alert, and the trade
\* that triggers Speculative Accumulation alone has one.
C37_Witness ==
    /\ cycles = <<>>
    /\ gatePasses[tC.id].passed = 1
    /\ ~gatePasses[tC.id].fused
    /\ \E i \in 1..Len(alerts) :
          /\ alerts[i].id = tB.id
          /\ FactorTags[3] \in Range(alerts[i].factors)
          /\ FactorTags[4] \notin Range(alerts[i].factors)

-----------------------------------------------------------------------------
(* Properties of re-delivered trades (Spec). *)

\* An alert of this id was produced, and it is neither in the view nor
\* among the results that a cycle in flight will merge.
HasLeftView(id) ==
    /\ gatePasses[id].fused
    /\ id \notin AlertIds(alerts)
    /\ \A c \in InFlight : id \notin AlertIds(cycles[c].run.results)

\* C38: no step puts an alert into the view whose id had an alert that has
\* left it, whatever the feeds deliver.
C38_NoAlertAgainAfterLeaving ==
    [][\A id \in TradeIds : HasLeftView(id) => id \notin AlertIds(alerts')]_vars

\* The alert of the trade has left the view at the second start, the trade
\* was delivered again and stopped at the gate, and the view is empty.
C38_Witness ==
    /\ HasLeftView(tA.id)
    /\ gatePasses[tA.id].skipped
    /\ scans[2].pc # "unused"
    /\ isScanning
    /\ alerts = <<>>
    /\ cycles = <<>>

\* The evaluation of this id passed the gate and has ended without an
\* alert: none of this id is suspended, in a cycle or in the backtest.  For a
\* trade that qualifies, as tA always does, it has thrown.
EndedWithoutAlert(id) ==
    /\ gatePasses[id].passed >= 1
    /\ ~gatePasses[id].fused
    /\ \A c \in InFlight : \A w \in Pending(c) : cycles[c].run.workers[w].trade.id # id
    /\ ~(backtest.pc \in {"whales", "wallet", "analyze"} /\ backtest.ev.trade.id = id)

\* C39: an id whose evaluation ended without an alert is in
\* processedTradeIds and stays there; it passes the gate no second time, no
\* evaluation of it starts and no alert of it is produced or shown.
C39_FailedNeverRetried ==
    [][\A id \in TradeIds : EndedWithoutAlert(id) =>
          /\ id \in processedTradeIds
          /\ id \in processedTradeIds'
          /\ gatePasses'[id].passed = gatePasses[id].passed
          /\ EndedWithoutAlert(id)'
          /\ id \notin AlertIds(alerts')]_vars

\* The evaluation of tA has thrown, the trade was delivered again and
\* stopped at the gate, and no cycle is in flight.
C39_Witness ==
    /\ EndedWithoutAlert(tA.id)
    /\ gatePasses[tA.id].skipped
    /\ tA.id \in processedTradeIds
    /\ cycles = <<>>

-----------------------------------------------------------------------------
(* Properties of the backtest (SpecApp). *)

\* The timeout of the Demo Simulation tab fires after an earlier run of the
\* backtest has passed the gate.
LaterBacktestRun ==
    /\ gatePasses[BacktestTrade.id].passed >= 1
    /\ BacktestTimeout

\* C40 as stated: a later run of the backtest is stopped at the gate, and
\* the view is empty after it.
C40_LaterRunLeavesViewEmpty ==
    [][LaterBacktestRun =>
          /\ gatePasses'[BacktestTrade.id].skipped
          /\ gatePasses'[BacktestTrade.id].passed = 1
          /\ backtest' = NoBacktest
          /\ alerts' = <<>>]_vars

\* C40: a later run of the backtest is stopped at the gate: the scenario's
\* id passes the gate once, the run ends at once without an evaluation, and
\* it changes neither the view nor the processed ids nor the stats.
C40_LaterRunStoppedAtGate ==
    [][LaterBacktestRun =>
          /\ gatePasses'[BacktestTrade.id].skipped
          /\ gatePasses'[BacktestTrade.id].passed = 1
          /\ gatePasses'[BacktestTrade.id].fused = gatePasses[BacktestTrade.id].fused
          /\ backtest' = NoBacktest
          /\ alerts' = alerts
          /\ processedTradeIds' = processedTradeIds
          /\ marketStatsRef' = marketStatsRef]_vars

\* The first run of the backtest gave its alert, a later run was stopped at
\* the gate, and the view that its click cleared is empty.
C40_Witness ==
    /\ gatePasses[BacktestTrade.id].fused
    /\ gatePasses[BacktestTrade.id].skipped
    /\ gatePasses[BacktestTrade.id].passed = 1
    /\ backtest = NoBacktest
    /\ alerts = <<>>

-----------------------------------------------------------------------------
(* processQueue over candidates of equal latency: the evaluations that are *)
(* pending together were started together and complete together, in one   *)
(* round; a worker whose evaluation completed takes the next candidate,    *)
(* whose evaluation completes in the next round.                           *)

MaxRoundItems == 20     \* candidates of the cycle

\* Lines 98-122 for the evaluation that is w-th among the pending ones of
\* cycle c: the holder oracle, the wallet oracle and the analyzer answer it
\* in turn, and its worker goes on with the loop.
CompleteEvaluation(s, c, w, wallet) ==
    LET OnWhales(t) == EvalWhales(t.cycles[c].run.workers[w], {tA.makerAddress},
                                  Shared(t))
        OnWallet(t) == EvalWallet(t.cycles[c].run.workers[w], wallet, Shared(t))
        OnAnalysis(t) == EvalAnalysis(t.cycles[c].run.workers[w],
                                      WholeAnswer(MaxAnalyzerScore), Shared(t))
        Answered(t, r) == WorkerStep(t, c, w, r)
    IN  IF OnWhales(s).st # "await" THEN Answered(s, OnWhales(s))
        ELSE LET s1 == Answered(s, OnWhales(s))
                 s2 == CHOOSE t \in {Answered(s1, OnWallet(s1))} : TRUE
             IN  Answered(s2, OnAnalysis(s2))

RECURSIVE CompleteOldest(_, _, _)
\* The n oldest pending evaluations of the cycle complete, oldest first.
CompleteOldest(s, n, wallet) ==
    IF n = 0 \/ s.cycles = <<>> THEN s
    ELSE CompleteOldest(CompleteEvaluation(s, 1, 1, wallet), n - 1, wallet)

\* One round: the evaluations that are pending complete.
RoundOf(s, wallet) == CompleteOldest(s, Len(s.cycles[1].run.workers), wallet)

Round ==
    /\ cycles # <<>>
    /\ \E wallet \in WalletAnswers : Becomes(RoundOf(State, wallet))

\* The first cycle of a scan is answered with n candidates: trades of
\* distinct ids that qualify.
InitRounds ==
    \E n \in 0..MaxRoundItems :
        LET RoundTrade(k) == [tA EXCEPT !.id = ToString(k)]
            RoundIds == {ToString(k) : k \in 1..MaxRoundItems}
        IN
        Is(FetchAnswer(
               startLiveScan(
                   initMarketsAnswer(
                       [InitState EXCEPT
                           !.initCalls = 0,
                           !.gatePasses = [id \in TradeIds \cup RoundIds |->
                                              [passed |-> 0, skipped |-> FALSE,
                                               fused |-> FALSE]]],
                       FALSE, FetchedMarkets), 1),
               1, [k \in 1..n |-> RoundTrade(k)]))

SpecRounds == InitRounds /\ [][Round]_vars

RECURSIVE RoundsToDrain(_)
\* The number of rounds after which processQueue has returned.
RoundsToDrain(s) ==
    IF s.cycles = <<>> THEN 0
    ELSE 1 + RoundsToDrain(RoundOf(s, "stats"))

\* C34: processQueue returns after as many rounds as the candidates that
\* are not yet evaluated, divided by the concurrency and rounded up: from its
\* start after ceil(N / 3) rounds for N candidates, 7 for 20; and in every
\* round as many evaluations are pending as the limit allows.
C34_RoundsAreCeiling ==
    LET Ceiling(n, k) == (n + k - 1) \div k
    IN
    /\ Ceiling(20, QueueConcurrency) = 7
    /\ cycles # <<>> =>
          LET run == cycles[1].run
              left == Len(run.queue) + Len(run.workers)
          IN  /\ RoundsToDrain(State) = Ceiling(left, QueueConcurrency)
              /\ Len(run.workers) = Min(QueueConcurrency, left)
              /\ Len(run.results) = Len(run.items) - left
              /\ run.results = <<>> =>
                    RoundsToDrain(State) = Ceiling(Len(run.items), QueueConcurrency)

\* Twenty candidates, six rounds done: eighteen alerts are collected, the
\* last two evaluations are pending and the seventh round ends the queue.
C34_Witness ==
    /\ cycles # <<>>
    /\ Len(cycles[1].run.items) = 20
    /\ Len(cycles[1].run.results) = 18
    /\ Len(cycles[1].run.workers) = 2
    /\ cycles[1].run.queue = <<>>
    /\ RoundsToDrain(State) = 1

====
